---- MODULE Spec2Model ----
(***************************************************************************)
(* Model of panoptikon's job manager                                       *)
(* (src/panoptikon/api/routers/jobs/manager.py), of the SimilarTo          *)
(* filter's query construction                                             *)
(* (src/panoptikon/db/pql/filters/sortable/item_similarity.py), of the     *)
(* ordering of a query (src/panoptikon/db/pql/order_by.py), of the         *)
(* MatchValues filter (src/panoptikon/db/pql/filters/kvfilters.py), of     *)
(* mcut_threshold, get_rating and handle_tag_result                        *)
(* (src/data_extractors/data_handlers/tags.py), of the extraction rules    *)
(* (src/panoptikon/data_extractors/models.py, src/db/rules/rules.py), of   *)
(* the database handles (src/panoptikon/db/__init__.py) and their callers, *)
(* of the open-file endpoints (src/panoptikon/api/app.py), of the search   *)
(* response (src/panoptikon/api/routers/search.py) and of                  *)
(* ModelOptsFactory.get_model (src/panoptikon/data_extractors/models.py).  *)
(*                                                                         *)
(* The job manager is a state machine of one consumer thread, a number of  *)
(* API threads that call the public methods, and the worker processes the  *)
(* consumer spawns.  Every `with self.lock:` block is an acquire step      *)
(* followed by the steps of its body, the last of which releases the lock. *)
(***************************************************************************)
EXTENDS Integers, Sequences, FiniteSets, TLC

\* ---------------------------------------------------------------- bounds
MaxJobs == 2        \* queue ids handed out by get_next_job_id
NumClients == 2     \* API threads calling the manager concurrently
MaxIds == 2         \* length of the queue_ids list of cancel_queued_jobs

\* ------------------------------------------------------------- constants
None == 0           \* Optional[...] = None
Unlocked == 0       \* threading.Lock() not held by any thread

Clients == 1..NumClients
Consumer == NumClients + 1
JobIds == 1..MaxJobs

VARIABLES
    job_queue,      \* self.job_queue: sequence of queue ids, head first
    queued_jobs,    \* self.queued_jobs: the keys of the id map
    running_job,    \* self.running_job: queue id of the RunningJob, or None
    job_counter,    \* self.job_counter
    lock,           \* self.lock: Unlocked or the thread that holds it
    cpc,            \* position of the consumer thread in job_consumer
    cjob,           \* the consumer's local `job`
    pc,             \* position of every API thread
    arg,            \* the queue id an API thread got from get_next_job_id
    proc,           \* state of the multiprocessing.Process of every job
    last_exit,      \* what the last worker that exited did
    issued,         \* history: values returned by get_next_job_id, in order
    enqOrder,       \* history: queue ids in the order enqueue_job appended them
    startOrder,     \* history: queue ids in the order process.start() ran
    cancelledQueued,\* history: ids cancel_queued_jobs removed from the queue
    retCancelled,   \* history: ids returned by cancel_queued_jobs
    crjReturned,    \* history: ids returned by cancel_running_job
    crjRaised,      \* history: ids in the slot when cancel_running_job raised
    sim,            \* the SimilarTo scenario (store, query, results)
    fn              \* a pure function under evaluation: arguments, result

jmvars == <<job_queue, queued_jobs, running_job, job_counter, lock, cpc, cjob,
            pc, arg, proc, last_exit, issued, enqOrder, startOrder,
            cancelledQueued, retCancelled, crjReturned, crjRaised>>
vars == <<job_queue, queued_jobs, running_job, job_counter, lock, cpc, cjob,
          pc, arg, proc, last_exit, issued, enqOrder, startOrder,
          cancelledQueued, retCancelled, crjReturned, crjRaised, sim, fn>>

\* --------------------------------------------------------------- helpers
Range(s) == {s[i] : i \in 1..Len(s)}

RECURSIVE Remove(_, _)
\* list.remove(x): drops the first occurrence of x
Remove(s, x) ==
    IF s = <<>> THEN <<>>
    ELSE IF Head(s) = x THEN Tail(s)
    ELSE <<Head(s)>> \o Remove(Tail(s), x)

\* a process is alive from process.start() until it has exited
Alive(j) == proc[j] \in {"alive", "signalled"}

\* --------------------------------------------------------- the job body
JobTypes == {"data_extraction", "data_deletion", "folder_rescan",
             "folder_update", "unknown"}
\* what a worker is handed: the Job's fields and what its body will do
JobInputs == [job_type : JobTypes,
              metadata : {"none", "unknown_model", "known_model"},
              folders : BOOLEAN,        \* both folder lists present
              body_raises : BOOLEAN]    \* the job body raises an Exception

\* the outcome of the try block of execute_job
TryBlock(job) ==
    IF job.job_type \in {"data_extraction", "data_deletion"}
    THEN IF job.metadata = "none" THEN "AssertionError"
         ELSE IF job.metadata = "unknown_model" THEN "ValueError"
         ELSE IF job.body_raises THEN "Exception"
         ELSE "ok"
    ELSE IF job.job_type = "folder_rescan"
    THEN IF job.body_raises THEN "Exception" ELSE "ok"
    ELSE IF job.job_type = "folder_update"
    THEN IF ~job.folders THEN "AssertionError"
         ELSE IF job.body_raises THEN "Exception"
         ELSE "ok"
    ELSE "logged_unknown_type"

execute_job_reraise(job) ==
    LET r == TryBlock(job)
    IN  [failed |-> r # "ok",
         result |-> IF r = "AssertionError" THEN "raised" ELSE "returned"]

\* execute_job: `except Exception` catches every outcome of the try block
execute_job(job) ==
    LET r == TryBlock(job)
    IN  [failed |-> r # "ok", result |-> "returned"]

\* ------------------------------------------------------------------ Init
JMInit ==
    /\ job_queue = <<>>
    /\ queued_jobs = {}
    /\ running_job = None
    /\ job_counter = 0
    /\ lock = Unlocked
    /\ cpc = "top"
    /\ cjob = None
    /\ pc = [t \in Clients |-> "idle"]
    /\ arg = [t \in Clients |-> None]
    /\ proc = [j \in JobIds |-> "none"]
    /\ last_exit = [job |-> None, failed |-> FALSE, result |-> "none"]
    /\ issued = <<>>
    /\ enqOrder = <<>>
    /\ startOrder = <<>>
    /\ cancelledQueued = {}
    /\ retCancelled = {}
    /\ crjReturned = {}
    /\ crjRaised = {}

Init == JMInit /\ sim = None /\ fn = None


\* ------------------------------------------------ get_next_job_id (96-99)
GetNextJobId_NoLock(t) ==
    /\ pc[t] = "idle"
    /\ job_counter < MaxJobs
    /\ pc' = [pc EXCEPT ![t] = "gid_locked"]
    /\ UNCHANGED <<job_queue, queued_jobs, running_job, job_counter, lock, cpc,
                   cjob, arg, proc, last_exit, issued, enqOrder,
                   startOrder, cancelledQueued, retCancelled, crjReturned,
                   crjRaised, sim, fn>>

\* `with self.lock:` of get_next_job_id
GetNextJobId_Acquire(t) ==
    /\ pc[t] = "idle"
    /\ lock = Unlocked
    /\ job_counter < MaxJobs
    /\ lock' = t
    /\ pc' = [pc EXCEPT ![t] = "gid_locked"]
    /\ UNCHANGED <<job_queue, queued_jobs, running_job, job_counter, cpc,
                   cjob, arg, proc, last_exit, issued, enqOrder,
                   startOrder, cancelledQueued, retCancelled, crjReturned,
                   crjRaised, sim, fn>>

\* self.job_counter += 1
GetNextJobId_Incr(t) ==
    /\ pc[t] = "gid_locked"
    /\ job_counter' = job_counter + 1
    /\ pc' = [pc EXCEPT ![t] = "gid_return"]
    /\ UNCHANGED <<job_queue, queued_jobs, running_job, lock, cpc, cjob, arg,
                   proc, last_exit, issued, enqOrder, startOrder,
                   cancelledQueued, retCancelled, crjReturned, crjRaised, sim, fn>>

\* return self.job_counter, leaving the with block
GetNextJobId_Return(t) ==
    /\ pc[t] = "gid_return"
    /\ arg' = [arg EXCEPT ![t] = job_counter]
    /\ issued' = Append(issued, job_counter)
    /\ lock' = Unlocked
    /\ pc' = [pc EXCEPT ![t] = "has_id"]
    /\ UNCHANGED <<job_queue, queued_jobs, running_job, job_counter, cpc, cjob,
                   proc, last_exit, enqOrder, startOrder,
                   cancelledQueued, retCancelled, crjReturned, crjRaised, sim, fn>>

\* --------------------------------------------------- enqueue_job (101-105)
\* the caller builds Job(queue_id = the id it was given) and enqueues it
EnqueueJob_Acquire(t) ==
    /\ pc[t] = "has_id"
    /\ lock = Unlocked
    /\ lock' = t
    /\ pc' = [pc EXCEPT ![t] = "enq_locked"]
    /\ UNCHANGED <<job_queue, queued_jobs, running_job, job_counter, cpc,
                   cjob, arg, proc, last_exit, issued, enqOrder,
                   startOrder, cancelledQueued, retCancelled, crjReturned,
                   crjRaised, sim, fn>>

EnqueueJob_Body(t) ==
    /\ pc[t] = "enq_locked"
    /\ job_queue' = Append(job_queue, arg[t])
    /\ queued_jobs' = queued_jobs \cup {arg[t]}
    /\ enqOrder' = Append(enqOrder, arg[t])
    /\ arg' = [arg EXCEPT ![t] = None]
    /\ lock' = Unlocked
    /\ pc' = [pc EXCEPT ![t] = "idle"]
    /\ UNCHANGED <<running_job, job_counter, cpc, cjob, proc, last_exit,
                   issued, startOrder, cancelledQueued, retCancelled,
                   crjReturned, crjRaised, sim, fn>>

\* -------------------------------------------------- job_consumer (107-137)
\* line 110: `with self.lock:`
Consumer_Acquire1 ==
    /\ cpc = "top"
    /\ lock = Unlocked
    /\ lock' = Consumer
    /\ cpc' = "locked1"
    /\ UNCHANGED <<job_queue, queued_jobs, running_job, job_counter, cjob, pc,
                   arg, proc, last_exit, issued, enqOrder, startOrder,
                   cancelledQueued, retCancelled, crjReturned, crjRaised, sim, fn>>

Consumer_Dequeue_Lifo ==
    /\ cpc = "locked1"
    /\ IF running_job = None /\ job_queue # <<>>
       THEN /\ cjob' = job_queue[Len(job_queue)]
            /\ job_queue' = SubSeq(job_queue, 1, Len(job_queue) - 1)
            /\ queued_jobs' = queued_jobs \ {job_queue[Len(job_queue)]}
            /\ cpc' = "have_job"
       ELSE /\ cjob' = None
            /\ cpc' = "top"
            /\ UNCHANGED <<job_queue, queued_jobs>>
    /\ lock' = Unlocked
    /\ UNCHANGED <<running_job, job_counter, pc, arg, proc, last_exit, issued, enqOrder, startOrder, cancelledQueued, retCancelled,
                   crjReturned, crjRaised, sim, fn>>

\* lines 111-114, then leaving the with block; without a job the consumer
\* sleeps (line 137) and is back at the top of the loop
Consumer_Dequeue ==
    /\ cpc = "locked1"
    /\ IF running_job = None /\ job_queue # <<>>
       THEN /\ cjob' = Head(job_queue)
            /\ job_queue' = Tail(job_queue)
            /\ queued_jobs' = queued_jobs \ {Head(job_queue)}
            /\ cpc' = "have_job"
       ELSE /\ cjob' = None
            /\ cpc' = "top"
            /\ UNCHANGED <<job_queue, queued_jobs>>
    /\ lock' = Unlocked
    /\ UNCHANGED <<running_job, job_counter, pc, arg, proc, last_exit, issued, enqOrder, startOrder, cancelledQueued, retCancelled,
                   crjReturned, crjRaised, sim, fn>>

\* lines 117-121: the Process and the RunningJob are built, then the lock
\* is taken
Consumer_Acquire2 ==
    /\ cpc = "have_job"
    /\ lock = Unlocked
    /\ proc' = [proc EXCEPT ![cjob] = "created"]
    /\ lock' = Consumer
    /\ cpc' = "locked2"
    /\ UNCHANGED <<job_queue, queued_jobs, running_job, job_counter, cjob, pc,
                   arg, last_exit, issued, enqOrder, startOrder,
                   cancelledQueued, retCancelled, crjReturned, crjRaised, sim, fn>>

\* line 122, then leaving the with block
Consumer_SetSlot ==
    /\ cpc = "locked2"
    /\ running_job' = cjob
    /\ lock' = Unlocked
    /\ cpc' = "start"
    /\ UNCHANGED <<job_queue, queued_jobs, job_counter, cjob, pc, arg, proc,
                   last_exit, issued, enqOrder, startOrder,
                   cancelledQueued, retCancelled, crjReturned, crjRaised, sim, fn>>

\* line 126: process.start()
Consumer_Start ==
    /\ cpc = "start"
    /\ proc' = [proc EXCEPT ![cjob] = "alive"]
    /\ startOrder' = Append(startOrder, cjob)
    /\ cpc' = "join"
    /\ UNCHANGED <<job_queue, queued_jobs, running_job, job_counter, lock,
                   cjob, pc, arg, last_exit, issued, enqOrder,
                   cancelledQueued, retCancelled, crjReturned, crjRaised, sim, fn>>

Consumer_Join_NoWait ==
    /\ cpc = "join"
    /\ cpc' = "joined"
    /\ UNCHANGED <<job_queue, queued_jobs, running_job, job_counter, lock,
                   cjob, pc, arg, proc, last_exit, issued, enqOrder,
                   startOrder, cancelledQueued, retCancelled, crjReturned,
                   crjRaised, sim, fn>>

\* line 127: process.join() returns once the process has exited
Consumer_Join ==
    /\ cpc = "join"
    /\ proc[cjob] = "exited"
    /\ cpc' = "joined"
    /\ UNCHANGED <<job_queue, queued_jobs, running_job, job_counter, lock,
                   cjob, pc, arg, proc, last_exit, issued, enqOrder,
                   startOrder, cancelledQueued, retCancelled, crjReturned,
                   crjRaised, sim, fn>>

\* line 128: `with self.lock:`
Consumer_Acquire3 ==
    /\ cpc = "joined"
    /\ lock = Unlocked
    /\ lock' = Consumer
    /\ cpc' = "locked3"
    /\ UNCHANGED <<job_queue, queued_jobs, running_job, job_counter, cjob, pc,
                   arg, proc, last_exit, issued, enqOrder, startOrder,
                   cancelledQueued, retCancelled, crjReturned, crjRaised, sim, fn>>

\* lines 129-134, then leaving the with block and looping (line 109)
Consumer_Clear ==
    /\ cpc = "locked3"
    /\ running_job' = IF running_job # None /\ running_job = cjob
                      THEN None ELSE running_job
    /\ cjob' = None
    /\ lock' = Unlocked
    /\ cpc' = "top"
    /\ UNCHANGED <<job_queue, queued_jobs, job_counter, pc, arg, proc,
                   last_exit, issued, enqOrder, startOrder,
                   cancelledQueued, retCancelled, crjReturned, crjRaised, sim, fn>>

\* ------------------------------------------------- the worker process
\* The child runs execute_job(job) and exits; after terminate() it may also
\* be killed by the signal before execute_job has returned.
WorkerExit(j) ==
    /\ Alive(j)
    /\ proc' = [proc EXCEPT ![j] = "exited"]
    /\ \/ \E job \in JobInputs :
            last_exit' = [job |-> j,
                          failed |-> execute_job(job).failed,
                          result |-> execute_job(job).result]
       \/ /\ proc[j] = "signalled"
          /\ last_exit' = [job |-> j, failed |-> FALSE, result |-> "killed"]
    /\ UNCHANGED <<job_queue, queued_jobs, running_job, job_counter, lock, cpc,
                   cjob, pc, arg, issued, enqOrder, startOrder,
                   cancelledQueued, retCancelled, crjReturned, crjRaised, sim, fn>>


\* ---------------------------------------------- get_queue_status (139-164)
\* the queue list, the running job inserted at index 0
QueueStatus ==
    LET queue_list == [i \in 1..Len(job_queue) |->
                          [queue_id |-> job_queue[i], running |-> FALSE]]
    IN  IF running_job # None
        THEN <<[queue_id |-> running_job, running |-> TRUE]>> \o queue_list
        ELSE queue_list

GetQueueStatus_Acquire(t) ==
    /\ pc[t] = "idle"
    /\ lock = Unlocked
    /\ lock' = t
    /\ pc' = [pc EXCEPT ![t] = "gqs_locked"]
    /\ UNCHANGED <<job_queue, queued_jobs, running_job, job_counter, cpc,
                   cjob, arg, proc, last_exit, issued, enqOrder,
                   startOrder, cancelledQueued, retCancelled, crjReturned,
                   crjRaised, sim, fn>>

\* lines 141-164, then leaving the with block; what the call returns is
\* QueueStatus in the state this step is taken in
GetQueueStatus_Body(t) ==
    /\ pc[t] = "gqs_locked"
    /\ lock' = Unlocked
    /\ pc' = [pc EXCEPT ![t] = "idle"]
    /\ UNCHANGED <<job_queue, queued_jobs, running_job, job_counter, cpc,
                   cjob, arg, proc, last_exit, issued, enqOrder, startOrder,
                   cancelledQueued, retCancelled, crjReturned, crjRaised, sim, fn>>

\* -------------------------------------------- cancel_queued_jobs (166-180)
\* the queue_ids lists a caller may pass
IdLists == UNION {[1..n -> JobIds] : n \in 0..MaxIds}

RECURSIVE CancelLoop_KeepInQueue(_, _, _, _)
CancelLoop_KeepInQueue(ids, q, qd, cancelled) ==
    IF ids = <<>>
    THEN [queue |-> q, queued |-> qd, cancelled |-> cancelled,
          blocked |-> FALSE]
    ELSE LET qid == Head(ids)
         IN  IF running_job # None /\ running_job = qid
             THEN [queue |-> q, queued |-> qd, cancelled |-> cancelled,
                   blocked |-> TRUE]
             ELSE IF qid \in qd /\ qid \in Range(q)
             THEN CancelLoop_KeepInQueue(Tail(ids), q, qd \ {qid},
                                         Append(cancelled, qid))
             ELSE CancelLoop_KeepInQueue(Tail(ids), q, qd \ {qid}, cancelled)

RECURSIVE CancelLoop(_, _, _, _)
\* the for loop of lines 169-179 over the rest `ids` of queue_ids.  At the
\* id of the running job the loop calls cancel_running_job (line 172), whose
\* first statement acquires self.lock again: the lock is a non-reentrant
\* threading.Lock that this thread already holds, so the call blocks there.
CancelLoop(ids, q, qd, cancelled) ==
    IF ids = <<>>
    THEN [queue |-> q, queued |-> qd, cancelled |-> cancelled,
          blocked |-> FALSE]
    ELSE LET qid == Head(ids)
         IN  IF running_job # None /\ running_job = qid
             THEN [queue |-> q, queued |-> qd, cancelled |-> cancelled,
                   blocked |-> TRUE]
             ELSE IF qid \in qd /\ qid \in Range(q)
             THEN CancelLoop(Tail(ids), Remove(q, qid), qd \ {qid},
                             Append(cancelled, qid))
             ELSE CancelLoop(Tail(ids), q, qd \ {qid}, cancelled)

CancelQueuedJobs_Acquire(t) ==
    /\ pc[t] = "idle"
    /\ lock = Unlocked
    /\ lock' = t
    /\ pc' = [pc EXCEPT ![t] = "cqj_locked"]
    /\ UNCHANGED <<job_queue, queued_jobs, running_job, job_counter, cpc,
                   cjob, arg, proc, last_exit, issued, enqOrder,
                   startOrder, cancelledQueued, retCancelled, crjReturned,
                   crjRaised, sim, fn>>

\* the loop run on the list queue_ids; it either returns `cancelled` and
\* releases the lock, or blocks in the nested acquire with the lock held
CancelQueuedJobs_Body(t) ==
    /\ pc[t] = "cqj_locked"
    /\ \E queue_ids \in IdLists :
         LET r == CancelLoop(queue_ids, job_queue, queued_jobs, <<>>)
         IN  /\ job_queue' = r.queue
             /\ queued_jobs' = r.queued
             /\ cancelledQueued' = cancelledQueued \cup Range(r.cancelled)
             /\ IF r.blocked
                THEN /\ pc' = [pc EXCEPT ![t] = "cqj_blocked"]
                     /\ UNCHANGED <<lock, retCancelled>>
                ELSE /\ pc' = [pc EXCEPT ![t] = "idle"]
                     /\ lock' = Unlocked
                     /\ retCancelled' = retCancelled \cup Range(r.cancelled)
    /\ UNCHANGED <<running_job, job_counter, cpc, cjob, arg, proc, last_exit,
                   issued, enqOrder, startOrder, crjReturned,
                   crjRaised, sim, fn>>

\* -------------------------------------------- cancel_running_job (182-195)
CancelRunningJob_Acquire(t) ==
    /\ pc[t] = "idle"
    /\ lock = Unlocked
    /\ lock' = t
    /\ pc' = [pc EXCEPT ![t] = "crj_locked"]
    /\ UNCHANGED <<job_queue, queued_jobs, running_job, job_counter, cpc,
                   cjob, arg, proc, last_exit, issued, enqOrder,
                   startOrder, cancelledQueued, retCancelled, crjReturned,
                   crjRaised, sim, fn>>

\* lines 184-186 and 194-195.  Without a running job the call returns None.
\* process.terminate() on a Process that was not started yet raises
\* AttributeError (its _popen is None); the with block releases the lock and
\* the slot is left as it was.  Otherwise the signal is sent (a no-op for a
\* process that has exited) and the call goes on to join.
CancelRunningJob_Terminate(t) ==
    /\ pc[t] = "crj_locked"
    /\ IF running_job = None
       THEN /\ lock' = Unlocked
            /\ pc' = [pc EXCEPT ![t] = "idle"]
            /\ UNCHANGED <<proc, crjRaised>>
       ELSE IF proc[running_job] = "created"
       THEN /\ lock' = Unlocked
            /\ pc' = [pc EXCEPT ![t] = "idle"]
            /\ crjRaised' = crjRaised \cup {running_job}
            /\ UNCHANGED proc
       ELSE /\ proc' = [proc EXCEPT ![running_job] =
                           IF @ = "alive" THEN "signalled" ELSE @]
            /\ pc' = [pc EXCEPT ![t] = "crj_join"]
            /\ UNCHANGED <<lock, crjRaised>>
    /\ UNCHANGED <<job_queue, queued_jobs, running_job, job_counter, cpc, cjob,
                   arg, last_exit, issued, enqOrder, startOrder,
                   cancelledQueued, retCancelled, crjReturned, sim, fn>>

\* lines 187-193: process.join() returns once the process has exited, then
\* the slot is cleared and the id returned
CancelRunningJob_Join(t) ==
    /\ pc[t] = "crj_join"
    /\ proc[running_job] = "exited"
    /\ crjReturned' = crjReturned \cup {running_job}
    /\ running_job' = None
    /\ lock' = Unlocked
    /\ pc' = [pc EXCEPT ![t] = "idle"]
    /\ UNCHANGED <<job_queue, queued_jobs, job_counter, cpc, cjob, arg, proc,
                   last_exit, issued, enqOrder, startOrder,
                   cancelledQueued, retCancelled, crjRaised, sim, fn>>

\* ------------------------------------------------------- specification
ConsumerStep ==
    \/ Consumer_Acquire1
    \/ Consumer_Dequeue
    \/ Consumer_Acquire2
    \/ Consumer_SetSlot
    \/ Consumer_Start
    \/ Consumer_Join
    \/ Consumer_Acquire3
    \/ Consumer_Clear

ClientStep(t) ==
    \/ GetNextJobId_Acquire(t)
    \/ GetNextJobId_Incr(t)
    \/ GetNextJobId_Return(t)
    \/ EnqueueJob_Acquire(t)
    \/ EnqueueJob_Body(t)
    \/ GetQueueStatus_Acquire(t)
    \/ GetQueueStatus_Body(t)
    \/ CancelQueuedJobs_Acquire(t)
    \/ CancelQueuedJobs_Body(t)
    \/ CancelRunningJob_Acquire(t)
    \/ CancelRunningJob_Terminate(t)
    \/ CancelRunningJob_Join(t)

Next ==
    \/ ConsumerStep
    \/ \E t \in Clients : ClientStep(t)
    \/ \E j \in JobIds : WorkerExit(j)

Spec == Init /\ [][Next]_vars


\* Fair scheduling: a thread that can take a step infinitely often takes it
\* (also when it competes for the lock), every worker process eventually
\* exits, and an API thread inside a call goes on with it.  API threads are
\* free never to make another call.
ClientProgress(t) ==
    \/ GetNextJobId_Incr(t)
    \/ GetNextJobId_Return(t)
    \/ EnqueueJob_Acquire(t)
    \/ EnqueueJob_Body(t)
    \/ GetQueueStatus_Body(t)
    \/ CancelQueuedJobs_Body(t)
    \/ CancelRunningJob_Terminate(t)
    \/ CancelRunningJob_Join(t)

Fairness ==
    /\ SF_vars(ConsumerStep)
    /\ \A j \in JobIds : WF_vars(WorkerExit(j))
    /\ \A t \in Clients : SF_vars(ClientProgress(t))

FairSpec == Init /\ [][Next]_vars /\ Fairness

\* ------------------------------------------------------------------ claims
Pos(s, x) == CHOOSE i \in 1..Len(s) : s[i] = x

\* C1: at every moment at most one worker process is alive (started and not
\* yet exited), whatever the interleaving of the API calls and the consumer.
C1_AtMostOneWorker == Cardinality({j \in JobIds : Alive(j)}) <= 1

\* C1 witness: a worker is alive after an earlier worker was cancelled while
\* running and has exited.
C1_Witness ==
    \E j, k \in JobIds :
        j # k /\ Alive(j) /\ proc[k] = "exited" /\ k \in crjReturned

\* C2: cancel_queued_jobs called with the id of the running job always
\* returns (with the worker terminated, the slot empty and the id in the
\* returned list): no thread inside cancel_queued_jobs waits for the lock
\* that it holds itself.
C2_CancelOfRunningReturns ==
    \A t \in Clients : ~(pc[t] = "cqj_blocked" /\ lock = t)

\* C3: a cancel_running_job call that finds job j in the running slot, at
\* whatever point of the consumer's sequence, returns j, and from then on
\* j's worker is not running and the slot does not hold j.
C3_CancelRunningStopsJob ==
    \A j \in crjReturned \cup crjRaised :
        /\ j \notin crjRaised
        /\ ~Alive(j)
        /\ proc[j] = "exited"
        /\ running_job # j

\* C4: under fair scheduling and with workers that exit, every job that is
\* in the queue is eventually started unless it is cancelled.
C4_EveryJobStarts ==
    \A j \in JobIds :
        (j \in Range(job_queue))
            ~> (j \in Range(startOrder) \/ j \in cancelledQueued)

\* C5: jobs are started in the order they were enqueued, and a job's worker
\* has exited before the worker of a job enqueued later is started.
C5_Fifo ==
    \A i, k \in 1..Len(startOrder) :
        i < k => /\ Pos(enqOrder, startOrder[i]) < Pos(enqOrder, startOrder[k])
                 /\ proc[startOrder[i]] = "exited"

\* C5 witness: two jobs were started, the one with the larger queue id
\* first because it was enqueued first.
C5_Witness ==
    /\ Len(startOrder) >= 2
    /\ startOrder[1] > startOrder[2]
    /\ Alive(startOrder[2])

C7_LockNeverAcrossProcessOps ==
    /\ cpc \in {"start", "join"} => lock # Consumer
    /\ \A t \in Clients : pc[t] = "crj_join" => lock # t

\* C8: a failing worker never stops the manager: execute_job returns
\* normally whatever makes the job fail, the consumer's step after the
\* worker's exit leaves the running-job slot empty, and the consumer's next
\* pass over a non-empty queue dequeues its head to start it.
C8_FailureDoesNotStopManager ==
    /\ [](last_exit.result # "raised")
    /\ [][(cpc = "locked3" /\ cpc' # "locked3") =>
            (cpc' = "top" /\ running_job' = None)]_vars
    /\ [][(cpc = "locked1" /\ cpc' # "locked1" /\ job_queue # <<>>) =>
            (cpc' = "have_job" /\ cjob' = Head(job_queue))]_vars

\* C8 witness: the first worker failed and exited normally, and the worker
\* of the next job has been started.
C8_Witness ==
    /\ Len(startOrder) >= 2
    /\ last_exit.job = startOrder[1]
    /\ last_exit.failed
    /\ last_exit.result = "returned"
    /\ Alive(startOrder[2])

\* C9: the values returned by get_next_job_id are strictly increasing in the
\* order of the returns, so no value is returned twice, also to concurrent
\* callers.
C9_IdsStrictlyIncreasing ==
    \A i, k \in 1..Len(issued) : i < k => issued[i] < issued[k]

\* C9 witness: two threads hold ids they got from get_next_job_id at the
\* same time.
C9_Witness ==
    \E t, u \in Clients :
        t # u /\ pc[t] = "has_id" /\ pc[u] = "has_id" /\ arg[t] # arg[u]


\* =========================================================================
\* SimilarTo.build_query (item_similarity.py 187-487) over a small store.
\* The queries are evaluated as the relations their SQL denotes.
\* Embeddings are vectors of one dimension, for which vec_distance_L2 is the
\* absolute difference.  The texts of the store carry no confidence and no
\* language confidence (NULL), and src_text is given with languages unset
\* and the min_* thresholds at their default 0.
\* =========================================================================
MaxItems == 2       \* items in the store; the sha256 of item i is i
MaxFiles == 3       \* files in the store
PageSize == 2       \* page_size of the search
MaxEmb == 3         \* embeddings in a store of the src_text scenarios
MaxVec == 1         \* largest coordinate of an embedding

Items == 1..MaxItems
Files == 1..MaxFiles
\* files.item_id: file f is a file of item FileItem(f); with more files than
\* items some items have several files
FileItem(f) == ((f - 1) % MaxItems) + 1
\* items.sha256
Sha256(i) == i

\* setters.name of the embedding setters in the store
SetterNames == {"clip", "tclip"}
\* setters.name of the setters that produced the texts embeddings derive from
SourceNames == {"ocr", "tagger"}
\* f"t{model_name}" (line 205)
TextSetterOf(name) == IF name = "clip" THEN "tclip" ELSE "ttclip"
\* item_data.data_type of what a setter writes
DataTypeOf(name) == IF name = "clip" THEN "clip" ELSE "text-embedding"

\* item_data joined to embeddings on id: one row per embedding e of the
\* store; e.src is the setter of the text item_data.source_id points to
\* ("none": source_id is NULL)
EmbeddingRows(emb) ==
    {[id |-> e, item_id |-> e.item, setter_name |-> e.setter,
      data_type |-> DataTypeOf(e.setter), source |-> e.src,
      embedding |-> e.vec] : e \in emb}

\* lines 209-245: context joined to item_data, setters (by name) and
\* embeddings; rows are <<context row, embedding row>>
EmbeddingsQuery(context, emb, model_name) ==
    {r \in context \X EmbeddingRows(emb) :
        r[2].item_id = FileItem(r[1]) /\ r[2].setter_name = model_name}

\* lines 199-205: the setter of the main embeddings query
ModelName(args) ==
    IF args.clip_xmodal THEN TextSetterOf(args.setter_name)
    ELSE args.setter_name

\* lines 250-266: the inner joins with extracted_text and src_item_data
\* through item_data.source_id keep the rows that have a source text.  The
\* join with src_setters (lines 262-266) has an ON clause that names only
\* `setters`, the embedding's own setter: it keeps a row when the name of
\* that setter is in setter_names.
SrcTextJoin(rows, src_text) ==
    IF ~src_text.given THEN rows
    ELSE {r \in rows :
            /\ r[2].source # "none"
            /\ src_text.setter_names # {} =>
                   r[2].setter_name \in src_text.setter_names}

\* lines 228-287: embeddings_query
MainEmbeddingsQuery(context, emb, args) ==
    SrcTextJoin(EmbeddingsQuery(context, emb, ModelName(args)), args.src_text)

\* lines 289-316: the count branch, grouped by the context's columns: the
\* context rows that have an embedding row
CountBranch(context, emb, args) ==
    LET embeddings_query == MainEmbeddingsQuery(context, emb, args)
        image_embeddings_query ==
            EmbeddingsQuery(context, emb, args.setter_name)
        rows == IF ~args.clip_xmodal THEN embeddings_query
                ELSE embeddings_query \cup image_embeddings_query
    IN  {r[1] : r \in rows}

\* lines 318-390: one row per (item_id, emb_id), with the image embeddings
\* united for clip_xmodal
UniqueEmbeddings(context, emb, args) ==
    LET Unq(q) == {[item_id |-> r[2].item_id, sha256 |-> Sha256(r[2].item_id),
                    emb_id |-> r[2].id, embedding |-> r[2].embedding,
                    data_type |-> r[2].data_type] :
                   r \in q}
        unqemb == Unq(MainEmbeddingsQuery(context, emb, args))
        imgemb == Unq(EmbeddingsQuery(context, emb, args.setter_name))
    IN  IF args.clip_xmodal THEN unqemb \cup imgemb ELSE unqemb

\* lines 335-345: the columns of the unique-embeddings CTE besides the five
\* of lines 320-324
ExtraColumns(args) ==
    (IF args.src_text.given /\ args.src_text.confidence_weight # 0
     THEN {"confidence"} ELSE {})
    \cup
    (IF args.src_text.given /\ args.src_text.language_confidence_weight # 0
     THEN {"language_confidence"} ELSE {})

\* lines 406-443: the rank column.  With src_text given, lines 418-427 read
\* main_embeddings.c.confidence and .c.language_confidence whatever the
\* weights are; reading a column the CTE does not have raises
\* AttributeError.
RankColumn(args) ==
    IF args.src_text.given
    THEN IF {"confidence", "language_confidence"} \subseteq ExtraColumns(args)
         THEN "WEIGHTED"
         ELSE "AttributeError"
    ELSE args.distance_aggregation

ModelledAggregations == {"MIN", "MAX", "AVG"}

XmodalGate_NoI2IGate(args, main, other) ==
    (args.clip_xmodal /\ ~args.xmodal_t2t) =>
        (main.data_type # "text-embedding"
         \/ other.data_type # "text-embedding")

\* lines 458-472: the pairs the xmodal flags let through
XmodalGate(args, main, other) ==
    /\ (args.clip_xmodal /\ ~args.xmodal_i2i) =>
           (main.data_type # "clip" \/ other.data_type # "clip")
    /\ (args.clip_xmodal /\ ~args.xmodal_t2t) =>
           (main.data_type # "text-embedding"
            \/ other.data_type # "text-embedding")

DistancePairs_WithTarget(context, emb, args) ==
    LET unqemb_cte == UniqueEmbeddings(context, emb, args)
    IN  {p \in unqemb_cte \X unqemb_cte :
            /\ p[2].sha256 = args.target
            /\ XmodalGate(args, p[2], p[1])}

\* lines 445-472: other joined to main on main.sha256 = target, where
\* other.sha256 != target; a pair is <<other, main>>
DistancePairs(context, emb, args) ==
    LET unqemb_cte == UniqueEmbeddings(context, emb, args)
    IN  {p \in unqemb_cte \X unqemb_cte :
            /\ p[2].sha256 = args.target
            /\ p[1].sha256 # args.target
            /\ XmodalGate(args, p[2], p[1])}

\* lines 397-405: vec_distance_L2 of the two embeddings of a pair
VecDistance(p) ==
    IF p[2].embedding >= p[1].embedding
    THEN p[2].embedding - p[1].embedding
    ELSE p[1].embedding - p[2].embedding

RECURSIVE SumDistance(_)
SumDistance(P) ==
    IF P = {} THEN 0
    ELSE LET p == CHOOSE x \in P : TRUE
         IN  VecDistance(p) + SumDistance(P \ {p})

\* lines 406-443, evaluated over the pairs P of one group: the distance as
\* the fraction num / den.  The weights POW(COALESCE(confidence, 1) * ..., w)
\* are 1 for texts without confidences.
Aggregate(rank_column, P) ==
    LET ds == {VecDistance(p) : p \in P}
    IN  IF rank_column = "MIN"
        THEN [num |-> CHOOSE d \in ds : \A e \in ds : d <= e, den |-> 1]
        ELSE IF rank_column = "MAX"
        THEN [num |-> CHOOSE d \in ds : \A e \in ds : d >= e, den |-> 1]
        ELSE [num |-> SumDistance(P), den |-> Cardinality(P)]

\* lines 445-457, 474-477: distance_cte, one row per other.item_id
DistanceCte(context, emb, args) ==
    LET pairs == DistancePairs(context, emb, args)
        others == {p[1].item_id : p \in pairs}
    IN  [i \in others |->
            Aggregate(RankColumn(args), {p \in pairs : p[1].item_id = i})]

\* lines 474-487: joined back to the context
DistanceBranch(context, emb, args) ==
    LET distance_cte == {p[1].item_id : p \in DistancePairs(context, emb, args)}
    IN  {f \in context : FileItem(f) \in distance_cte}

\* lines 187-487: whether building the query raised, the rows (file ids of
\* the context) the filter lets through, and the distance of every item
build_query(context, emb, args, is_count_query) ==
    IF is_count_query
    THEN [raised |-> FALSE, rows |-> CountBranch(context, emb, args),
          distance |-> <<>>]
    ELSE IF RankColumn(args) = "AttributeError"
    THEN [raised |-> TRUE, rows |-> {}, distance |-> <<>>]
    ELSE [raised |-> FALSE, rows |-> DistanceBranch(context, emb, args),
          distance |-> DistanceCte(context, emb, args)]

\* SELECT COUNT(DISTINCT file_id) over the filter's rows
CountOf(rows) == Cardinality(rows)

RECURSIVE SortedSeq(_)
\* the rows in the order of the final select
SortedSeq(S) ==
    IF S = {} THEN <<>>
    ELSE LET m == CHOOSE x \in S : \A y \in S : x <= y
         IN  <<m>> \o SortedSeq(S \ {m})

\* LIMIT page_size OFFSET page * page_size
Page(rows, page) ==
    LET all == SortedSeq(rows)
        lo == page * PageSize + 1
        hi == IF (page + 1) * PageSize < Len(all)
              THEN (page + 1) * PageSize ELSE Len(all)
    IN  {all[i] : i \in lo..hi}

\* src_text = None
NoSrcText ==
    [given |-> FALSE, setter_names |-> {}, confidence_weight |-> 0,
     language_confidence_weight |-> 0]

SimilarityArgs ==
    {a \in [target : Items, setter_name : SetterNames, clip_xmodal : BOOLEAN,
            xmodal_t2t : BOOLEAN, xmodal_i2i : BOOLEAN,
            distance_aggregation : {"AVG"}, src_text : {NoSrcText}] :
        \* the xmodal flags are read only with clip_xmodal
        ~a.clip_xmodal => (a.xmodal_t2t /\ ~a.xmodal_i2i)}

\* the embedding of item i by setter s in the stores of SimSpec
StoreRow(i, s) ==
    [item |-> i, setter |-> s,
     src |-> IF s = "clip" THEN "none" ELSE "ocr", vec |-> 0]

\* a store, an incoming context and a SimilarTo filter
SimInit ==
    /\ JMInit
    /\ fn = None
    /\ \E context \in SUBSET Files, e \in SUBSET (Items \X SetterNames),
          args \in SimilarityArgs :
         sim = [phase |-> "query", context |-> context,
                emb |-> {StoreRow(x[1], x[2]) : x \in e},
                args |-> args, count |-> 0, page |-> 0, results |-> {}]

\* the query run with count = true
SimCount ==
    /\ sim.phase = "query"
    /\ sim' = [sim EXCEPT
                 !.phase = "paging",
                 !.count = CountOf(build_query(sim.context, sim.emb,
                                               sim.args, TRUE).rows)]
    /\ UNCHANGED <<jmvars, fn>>

\* the same query run with count = false for the next page
SimFetchPage ==
    /\ sim.phase = "paging"
    /\ LET rows == Page(build_query(sim.context, sim.emb, sim.args,
                                    FALSE).rows, sim.page)
       IN  sim' = IF rows = {}
                  THEN [sim EXCEPT !.phase = "done"]
                  ELSE [sim EXCEPT !.page = @ + 1,
                                   !.results = @ \cup rows]
    /\ UNCHANGED <<jmvars, fn>>

SimNext == SimCount \/ SimFetchPage

SimSpec == SimInit /\ [][SimNext]_vars

\* C10: with count = true a query with a SimilarTo filter counts exactly
\* the files the same query returns over all its pages with count = false.
C10_CountEqualsResults ==
    sim.phase = "done" => sim.count = Cardinality(sim.results)

\* C11: a non-count SimilarTo never returns the target item: every returned
\* row is a row of the incoming context, its item's sha256 differs from the
\* target's, and its distance is aggregated from exactly the pairs whose
\* main side is an embedding of the target and whose other side is an
\* embedding of the row's item.
C11_TargetNeverReturned ==
    LET q == build_query(sim.context, sim.emb, sim.args, FALSE)
        unq == UniqueEmbeddings(sim.context, sim.emb, sim.args)
        FromTarget(i) ==
            {p \in unq \X unq :
                /\ p[2].sha256 = sim.args.target
                /\ p[1].item_id = i
                /\ XmodalGate(sim.args, p[2], p[1])}
    IN  /\ sim.results \subseteq sim.context
        /\ \A f \in sim.results :
              /\ Sha256(FileItem(f)) # sim.args.target
              /\ FileItem(f) \in DOMAIN q.distance
              /\ q.distance[FileItem(f)] =
                     Aggregate(sim.args.distance_aggregation,
                               FromTarget(FileItem(f)))

\* a search that returned rows although a file of the target is in the
\* incoming context
C11_Witness ==
    /\ sim.phase = "done"
    /\ sim.results # {}
    /\ \E f \in sim.context : Sha256(FileItem(f)) = sim.args.target

\* a pair the xmodal flags of the arguments admit: image-to-text in either
\* direction, text-to-text with xmodal_t2t, image-to-image with xmodal_i2i
Contributes(args, main, other) ==
    \/ main.data_type = "clip" /\ other.data_type = "text-embedding"
    \/ main.data_type = "text-embedding" /\ other.data_type = "clip"
    \/ /\ main.data_type = "text-embedding"
       /\ other.data_type = "text-embedding"
       /\ args.xmodal_t2t
    \/ /\ main.data_type = "clip" /\ other.data_type = "clip"
       /\ args.xmodal_i2i

\* the pairs of a target embedding (second) with an embedding of item i
TargetPairs(i) ==
    LET unq == UniqueEmbeddings(sim.context, sim.emb, sim.args)
    IN  {p \in unq \X unq :
            /\ p[2].sha256 = sim.args.target
            /\ p[1].item_id = i
            /\ p[1].sha256 # sim.args.target}

\* C14: with clip_xmodal = true a pair of embeddings contributes to the
\* distance only if it is image-to-text in either direction, text-to-text
\* with xmodal_t2t, or image-to-image with xmodal_i2i; every returned row's
\* item has such a pair with the target.
C14_XmodalPairs ==
    sim.args.clip_xmodal =>
        /\ \A p \in DistancePairs(sim.context, sim.emb, sim.args) :
              Contributes(sim.args, p[2], p[1])
        /\ \A f \in sim.results :
              \E p \in TargetPairs(FileItem(f)) :
                  Contributes(sim.args, p[2], p[1])

\* a finished cross-modal search that left out a context row whose item has
\* pairs with the target, none of which the flags admit
C14_Witness ==
    /\ sim.phase = "done"
    /\ sim.args.clip_xmodal
    /\ \E f \in sim.context \ sim.results :
          /\ TargetPairs(FileItem(f)) # {}
          /\ \A p \in TargetPairs(FileItem(f)) :
                ~Contributes(sim.args, p[2], p[1])

\* -------------------------------------------------------------------------
\* SimilarTo with src_text given, over stores of text embeddings that carry
\* vectors
\* -------------------------------------------------------------------------
Vecs == 0..MaxVec
Weights == {0, 1}

\* the text embeddings a store can hold: by "tclip", of a text of the item
\* that "ocr" or "tagger" produced
TextEmbeddings ==
    [item : Items, setter : {"tclip"}, src : SourceNames, vec : Vecs]

\* src_text.setter_names as the caller may give it
SetterNameLists == {{}, {"ocr"}, {"tagger"}, {"tclip"}}

SourceArgs ==
    [given : {TRUE}, setter_names : SetterNameLists,
     confidence_weight : Weights, language_confidence_weight : Weights]

SrcSimilarityArgs ==
    [target : Items, setter_name : {"tclip"}, clip_xmodal : {FALSE},
     xmodal_t2t : {TRUE}, xmodal_i2i : {FALSE},
     distance_aggregation : ModelledAggregations, src_text : SourceArgs]

\* a store of at most MaxEmb text embeddings, every file in the context
SrcInit ==
    /\ JMInit
    /\ fn = None
    /\ \E emb \in SUBSET TextEmbeddings, args \in SrcSimilarityArgs :
         /\ Cardinality(emb) <= MaxEmb
         /\ sim = [phase |-> "args", context |-> Files, emb |-> emb,
                   args |-> args, raised |-> FALSE, rows |-> {},
                   contributing |-> {}, distance |-> <<>>]

\* build_query with state.is_count_query = False; contributing holds the
\* embeddings of embeddings_query, which are those of the unique embeddings
SrcBuild ==
    /\ sim.phase = "args"
    /\ LET q == build_query(sim.context, sim.emb, sim.args, FALSE)
           used == {r[2].id : r \in MainEmbeddingsQuery(sim.context, sim.emb,
                                                        sim.args)}
       IN  sim' = [sim EXCEPT
                     !.phase = "built", !.raised = q.raised,
                     !.rows = q.rows, !.distance = q.distance,
                     !.contributing = IF q.raised THEN {} ELSE used]
    /\ UNCHANGED <<jmvars, fn>>

\* build_query with state.is_count_query = True
SrcCount ==
    /\ sim.phase = "args"
    /\ LET q == build_query(sim.context, sim.emb, sim.args, TRUE)
       IN  sim' = [sim EXCEPT !.phase = "counted", !.raised = q.raised,
                              !.rows = q.rows]
    /\ UNCHANGED <<jmvars, fn>>

SrcNext == SrcBuild \/ SrcCount

SrcSpec == SrcInit /\ [][SrcNext]_vars

\* C12: with src_text.setter_names given, an embedding of the model
\* contributes to the similarity exactly when the text it was derived from
\* was produced by one of the named source setters.
C12_SourceSetterFilter ==
    (/\ sim.phase = "built"
     /\ ~sim.raised
     /\ sim.args.src_text.setter_names # {})
    => \A e \in sim.emb :
          e.setter = ModelName(sim.args) =>
              (e \in sim.contributing
                  <=> e.src \in sim.args.src_text.setter_names)

\* C13: with src_text given and both weights 0 the query is built without
\* error and the distance of every item is the MIN, MAX or AVG, as
\* distance_aggregation says, of the distances of its pairs with the target.
C13_ZeroWeightsAggregate ==
    (/\ sim.phase = "built"
     /\ sim.args.src_text.confidence_weight = 0
     /\ sim.args.src_text.language_confidence_weight = 0)
    => /\ ~sim.raised
       /\ \A i \in DOMAIN sim.distance :
             sim.distance[i] =
                 Aggregate(sim.args.distance_aggregation,
                           {p \in DistancePairs(sim.context, sim.emb,
                                                sim.args) :
                               p[1].item_id = i})

\* =========================================================================
\* Ordering of a query (order_by.py): combine_order_lists, group_order_list
\* and the direction of every entry, as build_order_by applies them.
\* =========================================================================
MaxOrder == 3       \* OrderByFilters plus OrderArgs of one query

Priorities == {0, 1}
Directions == {"asc", "desc"}
\* OrderArgs.order_by: unset, or a column
OrderByColumns == {"None", "last_modified", "path"}
\* OrderArgs.order: unset, or a direction
OrderValues == {"None", "asc", "desc"}

\* the OrderByFilter of the i-th sortable filter; each has its own CTE
OrderByFilters(i) ==
    [kind : {"OrderByFilter"}, cte : {i}, priority : Priorities,
     direction : Directions]

OrderArgs ==
    [kind : {"OrderArgs"}, order_by : OrderByColumns, order : OrderValues,
     priority : Priorities]

\* the lists of n OrderByFilters, the i-th over CTE i
OrderLists(n) ==
    {l \in [1..n -> UNION {OrderByFilters(i) : i \in 1..n}] :
        \A i \in 1..n : l[i].cte = i}

SortKey_IndexFirst(x) == <<0 - x[1].priority, x[2], x[3]>>

\* line 89: key=lambda x: (-x[0].priority, x[2], x[1])
SortKey(x) == <<0 - x[1].priority, x[3], x[2]>>

\* the order of Python tuples of three integers
TupleLess(a, b) ==
    \/ a[1] < b[1]
    \/ a[1] = b[1] /\ a[2] < b[2]
    \/ a[1] = b[1] /\ a[2] = b[2] /\ a[3] < b[3]

RECURSIVE Sorted(_)
\* line 88: sorted(combined, key=...); no two entries have the same key
Sorted(S) ==
    IF S = {} THEN <<>>
    ELSE LET m == CHOOSE x \in S :
                     \A y \in S \ {x} : TupleLess(SortKey(x), SortKey(y))
         IN  <<m>> \o Sorted(S \ {m})

\* line 106: key=lambda obj: (obj.priority, isinstance(obj, OrderByFilter))
GroupKey(obj) == <<obj.priority, obj.kind = "OrderByFilter">>

RECURSIVE RunLength(_)
\* itertools.groupby: the length of the first run of equal keys
RunLength(s) ==
    IF Len(s) <= 1 THEN Len(s)
    ELSE IF GroupKey(s[2]) = GroupKey(s[1]) THEN 1 + RunLength(Tail(s))
    ELSE 1

GroupRun_Always(group_list) ==
    IF group_list[1].kind = "OrderByFilter"
    THEN <<[kind |-> "list", items |-> group_list]>>
    ELSE group_list

\* lines 108-119: a run of more than one OrderByFilter is appended as one
\* list, any other run is extended element by element
GroupRun(group_list) ==
    IF group_list[1].kind = "OrderByFilter" /\ Len(group_list) > 1
    THEN <<[kind |-> "list", items |-> group_list]>>
    ELSE group_list

RECURSIVE group_order_list(_)
\* lines 95-121
group_order_list(final_order) ==
    IF final_order = <<>> THEN <<>>
    ELSE LET n == RunLength(final_order)
         IN  GroupRun(SubSeq(final_order, 1, n))
             \o group_order_list(SubSeq(final_order, n + 1, Len(final_order)))

\* lines 77-91
combine_order_lists(order_list, order_args) ==
    LET combined ==
            {<<order_list[i], i - 1, 0>> : i \in 1..Len(order_list)}
            \cup {<<order_args[i], i - 1, 1>> : i \in 1..Len(order_args)}
        sorted_combined == Sorted(combined)
        final_order ==
            [i \in 1..Len(sorted_combined) |-> sorted_combined[i][1]]
    IN  group_order_list(final_order)

\* lines 124-138: the local order_by takes the default, the test of line
\* 132 reads order_args.order_by
get_order_by_and_direction(order_args) ==
    LET order_by == IF order_args.order_by = "None" THEN "last_modified"
                    ELSE order_args.order_by
        direction ==
            IF order_args.order = "None"
            THEN IF order_args.order_by = "last_modified" THEN "desc"
                 ELSE "asc"
            ELSE IF order_args.order = "asc" THEN "asc" ELSE "desc"
    IN  <<order_by, direction>>

\* lines 31-74: the direction build_order_by gives an entry of the full
\* order list (apply_order_args 146, apply_order_filter 170,
\* coalesce_order_filters 209)
EntryDirection(ospec) ==
    IF ospec.kind = "OrderArgs" THEN get_order_by_and_direction(ospec)[2]
    ELSE IF ospec.kind = "OrderByFilter"
    THEN (IF ospec.direction = "asc" THEN "asc" ELSE "desc")
    ELSE (IF ospec.items[1].direction = "asc" THEN "asc" ELSE "desc")

\* the lists of a query: at most MaxOrder entries in all
OrdInit ==
    /\ JMInit
    /\ sim = None
    /\ \E n \in 0..MaxOrder :
         \E order_list \in OrderLists(n) :
           \E m \in 0..(MaxOrder - n) :
             \E order_args \in [1..m -> OrderArgs] :
               fn = [phase |-> "lists", order_list |-> order_list,
                     order_args |-> order_args, full_order_list |-> <<>>,
                     directions |-> <<>>]

\* build_order_by, line 31
CombineOrderLists ==
    /\ fn.phase = "lists"
    /\ fn' = [fn EXCEPT
                !.phase = "combined",
                !.full_order_list =
                    combine_order_lists(fn.order_list, fn.order_args)]
    /\ UNCHANGED <<jmvars, sim>>

\* build_order_by, lines 34-73
ApplyOrder ==
    /\ fn.phase = "combined"
    /\ fn' = [fn EXCEPT
                !.phase = "ordered",
                !.directions =
                    [i \in 1..Len(fn.full_order_list) |->
                        EntryDirection(fn.full_order_list[i])]]
    /\ UNCHANGED <<jmvars, sim>>

OrdNext == CombineOrderLists \/ ApplyOrder

OrdSpec == OrdInit /\ [][OrdNext]_vars

RECURSIVE Flatten(_)
\* the entries of a full order list with every group replaced by its members
Flatten(full) ==
    IF full = <<>> THEN <<>>
    ELSE (IF full[1].kind = "list" THEN full[1].items ELSE <<full[1]>>)
         \o Flatten(Tail(full))

\* how many entries of s are x
Occurrences(s, x) == Cardinality({i \in 1..Len(s) : s[i] = x})

FilterEntry(ospec) == ospec.kind \in {"OrderByFilter", "list"}

\* the priority of an entry of the full order list
EntryPriority(ospec) ==
    IF ospec.kind = "list" THEN ospec.items[1].priority ELSE ospec.priority

\* C16: in the grouped list every maximal run of two or more consecutive
\* OrderByFilters of the same priority is one group: a group has at least
\* two members, all OrderByFilters of one priority (an OrderArgs is never a
\* member, a lone filter stays a single entry), and no group or single
\* filter stands next to another of the same priority.
C16_Grouping ==
    fn.phase = "combined" =>
        LET full == fn.full_order_list
        IN  /\ \A i \in 1..Len(full) :
                  full[i].kind = "list" =>
                    /\ Len(full[i].items) >= 2
                    /\ \A k \in 1..Len(full[i].items) :
                          /\ full[i].items[k].kind = "OrderByFilter"
                          /\ full[i].items[k].priority
                                 = full[i].items[1].priority
            /\ \A i \in 1..(Len(full) - 1) :
                  ~(/\ FilterEntry(full[i])
                    /\ FilterEntry(full[i + 1])
                    /\ EntryPriority(full[i]) = EntryPriority(full[i + 1]))

\* a grouped list with a group of two filters followed by a lone filter
C16_Witness ==
    /\ fn.phase = "combined"
    /\ Len(fn.full_order_list) = 2
    /\ fn.full_order_list[1].kind = "list"
    /\ Len(fn.full_order_list[1].items) = 2
    /\ fn.full_order_list[2].kind = "OrderByFilter"

\* C17: an OrderArgs whose order is unset is applied descending when its
\* effective column is last_modified, which includes order_by unset, and
\* ascending otherwise; an explicit asc or desc is applied as given.
C17_DefaultDirection ==
    fn.phase = "ordered" =>
        \A i \in 1..Len(fn.full_order_list) :
            LET ospec == fn.full_order_list[i]
                effective == IF ospec.order_by = "None" THEN "last_modified"
                             ELSE ospec.order_by
            IN  ospec.kind = "OrderArgs" =>
                    fn.directions[i] =
                        IF ospec.order # "None" THEN ospec.order
                        ELSE IF effective = "last_modified" THEN "desc"
                        ELSE "asc"

\* -------------------------------------------------------------------------
\* coalesce_order_filters (order_by.py 198-254) over the rows of a query and
\* the order_rank columns of the CTEs of a group of two filters
\* -------------------------------------------------------------------------
MaxRows == 2        \* rows of the query the group orders
MaxRank == 2        \* largest order_rank of a CTE

QueryRows == 1..MaxRows
Ranks == 1..MaxRank
\* the CTEs of the filters of the group
GroupCtes == {1, 2}

\* the sentinels of panoptikon.db.pql.types: beyond every order_rank
VERY_LARGE_NUMBER == MaxRank + 1
VERY_SMALL_NUMBER == 0 - (MaxRank + 1)

\* func.coalesce(column, value); a NULL column is None
Coalesce(column, value) == IF column = None THEN value ELSE column

\* query.join(cte, join_cond, isouter=True): the rows that match a row of
\* the CTE and, with a NULL order_rank, the rows that match none
LeftOuterJoin(rows, cte_rows) ==
    {r \in rows : r \in cte_rows} \cup {r \in rows : r \notin cte_rows}

RECURSIVE JoinedRows(_, _, _, _, _)
\* lines 212-225: the rows after the joins with the CTEs of the first k
\* filters of the group; a CTE that is the root of the chain is not joined
JoinedRows(args, rows, rank, root_cte_name, k) ==
    IF k = 0 THEN rows
    ELSE LET before == JoinedRows(args, rows, rank, root_cte_name, k - 1)
             cte_rows == {r \in QueryRows : rank[args[k].cte][r] # None}
         IN  IF args[k].cte # root_cte_name
             THEN LeftOuterJoin(before, cte_rows)
             ELSE before

coalesce_cols_OneSentinel(direction, cols) ==
    LET large == {Coalesce(cols[k], VERY_LARGE_NUMBER) : k \in DOMAIN cols}
    IN  IF direction = "asc"
        THEN CHOOSE v \in large : \A w \in large : v <= w
        ELSE CHOOSE v \in large : \A w \in large : v >= w

\* lines 233-246: MIN over the columns coalesced to VERY_LARGE_NUMBER for
\* asc, MAX over the columns coalesced to VERY_SMALL_NUMBER otherwise
coalesce_cols(direction, cols) ==
    LET large == {Coalesce(cols[k], VERY_LARGE_NUMBER) : k \in DOMAIN cols}
        small == {Coalesce(cols[k], VERY_SMALL_NUMBER) : k \in DOMAIN cols}
    IN  IF direction = "asc"
        THEN CHOOSE v \in large : \A w \in large : v <= w
        ELSE CHOOSE v \in small : \A w \in small : v >= w

\* lines 198-254: the direction of the group, the rows it keeps and the
\* value of the coalesced column on every row
coalesce_order_filters(args, rows, rank, root_cte_name) ==
    LET direction == IF args[1].direction = "asc" THEN "asc" ELSE "desc"
        joined == JoinedRows(args, rows, rank, root_cte_name, Len(args))
    IN  [direction |-> direction,
         rows |-> joined,
         column |-> [r \in joined |->
                        coalesce_cols(direction,
                            [k \in DOMAIN args |-> rank[args[k].cte][r]])]]

\* the sequences that hold every row of a set once
Orderings(rows) ==
    {o \in [1..Cardinality(rows) -> rows] :
        \A i, j \in DOMAIN o : i # j => o[i] # o[j]}

\* ORDER BY direction(column): any order of the rows that agrees with it
OrderedBy(direction, column, o) ==
    \A i, j \in DOMAIN o :
        i < j => IF direction = "asc" THEN column[o[i]] <= column[o[j]]
                 ELSE column[o[i]] >= column[o[j]]

\* a group of two filters of one priority, the order_rank of every row in
\* each CTE (None: the CTE has no row for it), and the root CTE of the
\* query (None: no CTE of the group), which has every row of the query
CoalInit ==
    /\ JMInit
    /\ sim = None
    /\ \E args \in [GroupCtes -> UNION {OrderByFilters(i) : i \in GroupCtes}],
          rank \in [GroupCtes -> [QueryRows -> Ranks \cup {None}]],
          root_cte_name \in GroupCtes \cup {None} :
         /\ \A i \in GroupCtes : args[i].cte = i /\ args[i].priority = 0
         /\ \A r \in QueryRows :
               root_cte_name # None => rank[root_cte_name][r] # None
         /\ fn = [phase |-> "group", args |-> args, rank |-> rank,
                  root_cte_name |-> root_cte_name, direction |-> "None",
                  rows |-> {}, column |-> <<>>, result |-> <<>>]

\* build_order_by, lines 61-73
CoalesceOrderFilters ==
    /\ fn.phase = "group"
    /\ LET c == coalesce_order_filters(fn.args, QueryRows, fn.rank,
                                       fn.root_cte_name)
       IN  fn' = [fn EXCEPT !.phase = "coalesced",
                            !.direction = c.direction,
                            !.rows = c.rows, !.column = c.column]
    /\ UNCHANGED <<jmvars, sim>>

\* the query run with the order by condition of the group
OrderRows ==
    /\ fn.phase = "coalesced"
    /\ \E o \in Orderings(fn.rows) :
         /\ OrderedBy(fn.direction, fn.column, o)
         /\ fn' = [fn EXCEPT !.phase = "ordered", !.result = o]
    /\ UNCHANGED <<jmvars, sim>>

CoalNext == CoalesceOrderFilters \/ OrderRows

CoalSpec == CoalInit /\ [][CoalNext]_vars

\* the non-null ranks of row r in the CTEs of the group
RanksOf(r) == {fn.rank[i][r] : i \in GroupCtes} \ {None}

\* C18: the sort key of a coalesced group is the minimum of a row's
\* non-null ranks for asc and the maximum for desc; a row with no rank in
\* any member is kept and comes after every row that has a rank, in both
\* directions.
C18_CoalescedKey ==
    fn.phase = "ordered" =>
        /\ \A r \in QueryRows : \E i \in DOMAIN fn.result : fn.result[i] = r
        /\ \A r \in QueryRows :
              RanksOf(r) # {} =>
                  /\ fn.column[r] \in RanksOf(r)
                  /\ \A v \in RanksOf(r) :
                        IF fn.direction = "asc" THEN fn.column[r] <= v
                        ELSE fn.column[r] >= v
        /\ \A i, j \in DOMAIN fn.result :
              (RanksOf(fn.result[i]) = {} /\ RanksOf(fn.result[j]) # {})
                  => j < i

\* a descending group ordered a row without any rank after a row whose
\* ranks differ between the two CTEs
C18_Witness ==
    /\ fn.phase = "ordered"
    /\ fn.direction = "desc"
    /\ \E i, j \in DOMAIN fn.result :
          /\ RanksOf(fn.result[i]) = {}
          /\ Cardinality(RanksOf(fn.result[j])) = 2

\* =========================================================================
\* MatchValues (kvfilters.py): the operators eq, neq, in_ and nin of MatchOps
\* on one column; the other operators are left unset.  A context row is
\* identified by its value of the column.
\* =========================================================================
FieldValues == {"a", "b", "c"}

\* Optional[ArgValuesScalar] with the column unset or set to a value
ScalarArgs ==
    [given : {FALSE}, list : {FALSE}, values : {{}}]
    \cup [given : {TRUE}, list : {FALSE},
          values : {{v} : v \in FieldValues}]

\* Optional[ArgValues]: unset, a value, or a list of values
ListArgs ==
    ScalarArgs \cup [given : {TRUE}, list : {TRUE}, values : SUBSET FieldValues]

\* lines 266-283
MatchOps == [eq : ScalarArgs, neq : ScalarArgs, in_ : ListArgs, nin : ListArgs]

\* line 300: the fields of MatchOps in the order model_dump() gives them
MatchOperators == <<"eq", "neq", "in_", "nin">>

\* lines 130-154: the criterion of an operator on a value that is no list;
\* an operator no branch names appends nothing
ScalarCriteria(operator, value) ==
    IF operator = "eq" THEN {[test |-> "==", values |-> {value}]}
    ELSE IF operator = "neq" THEN {[test |-> "!=", values |-> {value}]}
    ELSE {}

\* lines 155-200: the criterion of an operator on a list, or the ValueError
\* of line 200
ListCriteria(operator, value) ==
    IF operator = "eq" THEN {[test |-> "in", values |-> value]}
    ELSE IF operator = "neq" THEN {[test |-> "notin", values |-> value]}
    ELSE {[test |-> "ValueError", values |-> {}]}

\* lines 126-200 for one (operator, args) of queries
CriteriaOf(operator, args) ==
    IF args.list THEN ListCriteria(operator, args.values)
    ELSE ScalarCriteria(operator, CHOOSE v \in args.values : TRUE)

\* lines 120-206: the criteria of the queries, with the marker of a raised
\* ValueError among them if one was raised
build_criteria(queries) ==
    UNION {CriteriaOf(q[1], q[2]) : q \in queries}

\* whether a row with value v of the column satisfies a criterion
Satisfies(v, c) ==
    IF c.test \in {"==", "in"} THEN v \in c.values ELSE v \notin c.values

\* lines 298-309 and 208-246: the queries of the set operators, their
\* criteria, and the context rows that satisfy every criterion
MatchValues_build_query(match, context) ==
    LET queries == {<<MatchOperators[k], match[MatchOperators[k]]>> :
                       k \in {i \in DOMAIN MatchOperators :
                                 match[MatchOperators[i]].given}}
        criteria == build_criteria(queries)
    IN  IF \E c \in criteria : c.test = "ValueError"
        THEN [raised |-> TRUE, rows |-> {}]
        ELSE [raised |-> FALSE,
              rows |-> {v \in context : \A c \in criteria : Satisfies(v, c)}]

\* a MatchValues filter that validated (an operator is set) and a context
MatchInit ==
    /\ JMInit
    /\ sim = None
    /\ \E match \in MatchOps, context \in SUBSET FieldValues :
         /\ \E k \in DOMAIN MatchOperators : match[MatchOperators[k]].given
         /\ fn = [phase |-> "filter", match |-> match, context |-> context,
                  raised |-> FALSE, rows |-> {}]

\* MatchValues.build_query
MatchBuildQuery ==
    /\ fn.phase = "filter"
    /\ LET q == MatchValues_build_query(fn.match, fn.context)
       IN  fn' = [fn EXCEPT !.phase = "built", !.raised = q.raised,
                            !.rows = q.rows]
    /\ UNCHANGED <<jmvars, sim>>

MatchNext == MatchBuildQuery

MatchSpec == MatchInit /\ [][MatchNext]_vars

\* C19: in_ with a list selects the rows whose field equals one of the
\* values and nin with a list the rows whose field equals none of them; both
\* are ANDed with the other operators of the filter.
C19_InAndNin ==
    (/\ fn.phase = "built"
     /\ fn.match.in_.given => fn.match.in_.list
     /\ fn.match.nin.given => fn.match.nin.list
     /\ fn.match.in_.given \/ fn.match.nin.given)
    => /\ ~fn.raised
       /\ fn.rows =
            {v \in fn.context :
                /\ fn.match.in_.given => v \in fn.match.in_.values
                /\ fn.match.nin.given => v \notin fn.match.nin.values
                /\ fn.match.eq.given => v \in fn.match.eq.values
                /\ fn.match.neq.given => v \notin fn.match.neq.values}

\* =========================================================================
\* mcut_threshold (data_handlers/tags.py 15-26) in binary floating point.
\* The probabilities are the floats of one binade, written as their
\* significands in units of the last place: with MantissaBits fraction bits
\* they are 2^MantissaBits .. 2^(MantissaBits + 1) - 1.
\* =========================================================================
MaxProbs == 3       \* length of the probs array
MantissaBits == 2   \* fraction bits of the floating point format

ProbValues == (2 ^ MantissaBits)..(2 ^ (MantissaBits + 1) - 1)

RECURSIVE SortDescending(_)
\* line 21: probs[probs.argsort()[::-1]]
SortDescending(probs) ==
    IF probs = <<>> THEN <<>>
    ELSE LET k == CHOOSE i \in DOMAIN probs :
                     \A j \in DOMAIN probs : probs[i] >= probs[j]
             rest == [i \in 1..(Len(probs) - 1) |->
                         IF i < k THEN probs[i] ELSE probs[i + 1]]
         IN  <<probs[k]>> \o SortDescending(rest)

\* the float sum of two floats of the binade: the sum lies in the next
\* binade, where the floats are the even numbers; an odd sum is halfway
\* between two floats and rounds to the one with the even significand
FloatAdd(a, b) ==
    LET exact == a + b
    IN  IF exact % 2 = 0 THEN exact
        ELSE IF (exact - 1) % 4 = 0 THEN exact - 1
        ELSE exact + 1

\* x / 2 for a float x of the next binade: exact
FloatHalf(x) == x \div 2

\* lines 15-26; the differences of floats of one binade are exact
mcut_threshold(probs) ==
    LET sorted_probs == SortDescending(probs)
        difs == [i \in 1..(Len(probs) - 1) |->
                    sorted_probs[i] - sorted_probs[i + 1]]
        \* argmax: the first index of the largest difference
        t == CHOOSE i \in DOMAIN difs :
                 /\ \A j \in DOMAIN difs : difs[i] >= difs[j]
                 /\ \A j \in DOMAIN difs : j < i => difs[j] < difs[i]
    IN  FloatHalf(FloatAdd(sorted_probs[t], sorted_probs[t + 1]))

\* an array of at least two probabilities
McutInit ==
    /\ JMInit
    /\ sim = None
    /\ \E n \in 2..MaxProbs :
         \E probs \in [1..n -> ProbValues] :
           fn = [phase |-> "probs", probs |-> probs, thresh |-> None]

\* m_thresh = mcut_threshold(np.array(general)), line 135
McutThreshold ==
    /\ fn.phase = "probs"
    /\ fn' = [fn EXCEPT !.phase = "thresh",
                        !.thresh = mcut_threshold(fn.probs)]
    /\ UNCHANGED <<jmvars, sim>>

McutNext == McutThreshold

McutSpec == McutInit /\ [][McutNext]_vars

\* C20: for at least two probabilities mcut_threshold returns the midpoint
\* (to the precision of the format) of the two neighbours around the
\* largest adjacent gap of the sorted values; when that gap is positive the
\* threshold lies strictly between them, so at least one probability is at
\* or above it and at least one is below it; when all probabilities are
\* equal the threshold is that value.
C20_McutThreshold ==
    fn.phase = "thresh" =>
        LET s == SortDescending(fn.probs)
            gaps == {s[i] - s[i + 1] : i \in 1..(Len(s) - 1)}
            largest == CHOOSE g \in gaps : \A h \in gaps : g >= h
        IN  /\ \E i \in 1..(Len(s) - 1) :
                  /\ s[i] - s[i + 1] = largest
                  /\ 2 * fn.thresh - (s[i] + s[i + 1]) \in {0 - 1, 0, 1}
                  /\ largest > 0 =>
                         (s[i + 1] < fn.thresh /\ fn.thresh < s[i])
            /\ largest > 0 =>
                   /\ \E k \in DOMAIN s : s[k] >= fn.thresh
                   /\ \E k \in DOMAIN s : s[k] < fn.thresh
            /\ largest = 0 => fn.thresh = s[1]

\* =========================================================================
\* get_rating (data_handlers/tags.py 41-63): the rating of an item from the
\* rating results of its samples.  A result is a dict from labels to
\* scores; its items come in the order of RatingLabels.
\* =========================================================================
MaxSamples == 2     \* rating results of one item

RatingLabels == <<"general", "sensitive", "explicit">>
Scores == {1, 2}

\* the configured severity orders: every label, or one label left out
SeverityOrders ==
    {<<"general", "sensitive", "explicit">>, <<"general", "explicit">>}

\* the dicts of one sample: some labels, each with a score
RatingResults ==
    UNION {[L -> Scores] :
              L \in (SUBSET {RatingLabels[k] : k \in DOMAIN RatingLabels})
                        \ {{}}}

\* line 45 and severity_map.get(label, 0): the index of the label in the
\* order, 0 for a label the order does not name
Severity(severity_order, label) ==
    IF \E k \in DOMAIN severity_order : severity_order[k] = label
    THEN (CHOOSE k \in DOMAIN severity_order : severity_order[k] = label) - 1
    ELSE 0

\* line 49: max(result.items(), key=lambda x: x[1]), the first item of the
\* largest score
TopRating(result) ==
    LET k == CHOOSE i \in DOMAIN RatingLabels :
                 /\ RatingLabels[i] \in DOMAIN result
                 /\ \A j \in DOMAIN RatingLabels :
                       RatingLabels[j] \in DOMAIN result =>
                           /\ result[RatingLabels[j]] <= result[RatingLabels[i]]
                           /\ j < i =>
                                  result[RatingLabels[j]]
                                      < result[RatingLabels[i]]
    IN  <<RatingLabels[k], result[RatingLabels[k]]>>

Replaces_ByScore(severity_order, rating, score, final) ==
    score > final[2]

\* lines 52-58: whether the rating of a result replaces the final rating
Replaces(severity_order, rating, score, final) ==
    \/ Severity(severity_order, rating) > Severity(severity_order, final[1])
    \/ /\ Severity(severity_order, rating)
              = Severity(severity_order, final[1])
       /\ score > final[2]

RECURSIVE RatingLoop(_, _, _)
\* lines 47-60: the loop over the results from the k-th on; final is
\* <<final_rating, final_score>>, <<"None", 0>> before the first result
RatingLoop(tags, severity_order, final) ==
    IF tags = <<>> THEN final
    ELSE LET top == TopRating(Head(tags))
         IN  RatingLoop(Tail(tags), severity_order,
                 IF final[1] = "None"
                    \/ Replaces(severity_order, top[1], top[2], final)
                 THEN top ELSE final)

\* lines 41-63
get_rating(tags, severity_order) ==
    RatingLoop(tags, severity_order, <<"None", 0>>)

\* a non-empty list of rating results and a severity order
RatingInit ==
    /\ JMInit
    /\ sim = None
    /\ \E n \in 1..MaxSamples :
         \E tags \in [1..n -> RatingResults],
            severity_order \in SeverityOrders :
           fn = [phase |-> "results", tags |-> tags,
                 severity_order |-> severity_order,
                 rating |-> <<"None", 0>>]

\* aggregate_tags, line 77
GetRating ==
    /\ fn.phase = "results"
    /\ fn' = [fn EXCEPT !.phase = "rated",
                        !.rating = get_rating(fn.tags, fn.severity_order)]
    /\ UNCHANGED <<jmvars, sim>>

RatingNext == GetRating

RatingSpec == RatingInit /\ [][RatingNext]_vars

\* C21: for every non-empty list of rating results the rating of the item
\* is the label of highest severity among all labels of all samples, a tie
\* in severity being broken by the higher score.
C21_HighestSeverityOfAllLabels ==
    fn.phase = "rated" =>
        /\ \E k \in DOMAIN fn.tags :
              /\ fn.rating[1] \in DOMAIN fn.tags[k]
              /\ fn.tags[k][fn.rating[1]] = fn.rating[2]
        /\ \A k \in DOMAIN fn.tags :
              \A label \in DOMAIN fn.tags[k] :
                  \/ Severity(fn.severity_order, label)
                         < Severity(fn.severity_order, fn.rating[1])
                  \/ /\ Severity(fn.severity_order, label)
                            = Severity(fn.severity_order, fn.rating[1])
                     /\ fn.tags[k][label] <= fn.rating[2]

\* C21, amended: the rating of the item is the top-scoring label of one of
\* its samples (the first one of the top score in the sample); no sample's
\* top-scoring label has a higher severity, or the same severity and a
\* higher score.  A label the severity order does not name has severity 0.
C21_HighestSeverityOfTopLabels ==
    fn.phase = "rated" =>
        /\ \E k \in DOMAIN fn.tags : TopRating(fn.tags[k]) = fn.rating
        /\ \A k \in DOMAIN fn.tags :
              LET top == TopRating(fn.tags[k])
              IN  \/ Severity(fn.severity_order, top[1])
                         < Severity(fn.severity_order, fn.rating[1])
                  \/ /\ Severity(fn.severity_order, top[1])
                            = Severity(fn.severity_order, fn.rating[1])
                     /\ top[2] <= fn.rating[2]

\* two samples whose top labels differ in severity, the more severe one
\* with the lower score, and a sample with a more severe label below its top
C21_Witness ==
    /\ fn.phase = "rated"
    /\ Len(fn.tags) = 2
    /\ TopRating(fn.tags[1]) = <<"sensitive", 1>>
    /\ TopRating(fn.tags[2]) = <<"general", 2>>
    /\ "explicit" \in DOMAIN fn.tags[2]
    /\ fn.severity_order = <<"general", "sensitive", "explicit">>
    /\ fn.rating = <<"sensitive", 1>>

\* =========================================================================
\* Candidate items of an extraction job: the built-in rules of an extractor
\* (panoptikon/data_extractors/models.py 103-123), the rules bound to its
\* setter (db/rules/rules.py 137-187) and the job the UI runs
\* (ui/components/extractor_ui.py 22-62).  The extractor targets items.
\* =========================================================================
MaxRuleItems == 2   \* items in the store

RuleItems == 1..MaxRuleItems
MimeTypes == {"image/png", "video/mp4"}
MimePrefixes == {"image/", "video/"}
\* the setter of the extractor
ExtractorSetter == "wd-tags/tagger"

\* item.type starts with the prefix
StartsWith(type, prefix) ==
    \/ type = "image/png" /\ prefix = "image/"
    \/ type = "video/mp4" /\ prefix = "video/"

ProcessedItemsFilter(setter_name) ==
    [kind |-> "ProcessedItems", setter_name |-> setter_name]
MimeFilter(mime_type_prefixes) ==
    [kind |-> "Mime", mime_type_prefixes |-> mime_type_prefixes]

\* whether an item matches a filter: ProcessedItems when it already has
\* ItemData of the setter, Mime when its type starts with one of the
\* prefixes
MatchesFilter(item, filter) ==
    IF filter.kind = "ProcessedItems" THEN filter.setter_name \in item.setters
    ELSE \E prefix \in filter.mime_type_prefixes : StartsWith(item.type, prefix)

\* the items that match every positive and no negative filter
FilterCandidates(items, filters) ==
    {i \in DOMAIN items :
        /\ \A f \in filters.positive : MatchesFilter(items[i], f)
        /\ \A f \in filters.negative : ~MatchesFilter(items[i], f)}

\* models.py 103-123 for an extractor with "items" among its target
\* entities; supported_mime_types is {} for None
item_extraction_rules(supported_mime_types) ==
    [positive |-> {ProcessedItemsFilter(ExtractorSetter)}
                  \cup (IF supported_mime_types # {}
                        THEN {MimeFilter(supported_mime_types)} ELSE {}),
     negative |-> {}]

\* the filters a user rule can hold
UserFilters ==
    {[positive |-> {}, negative |-> {}],
     [positive |-> {MimeFilter({"image/"})}, negative |-> {}],
     [positive |-> {}, negative |-> {MimeFilter({"image/"})}]}

\* the rows of extraction_rules with their rows of
\* extraction_rules_setters: a rule has filters and the setters bound to it
StoredRules ==
    [filters : UserFilters,
     setters : {{}, {ExtractorSetter}, {"clip/other"}}]

\* rules.py 137-187: the rules that have the setter
get_rules_for_setter(rules, setter_name) ==
    {r \in rules : setter_name \in r.setters}

\* rule_builder.py 195-197: the filters of a rule chained with the internal
\* filters of the model
ChainedFilters(model_filters, rule_filters) ==
    [positive |-> model_filters.positive \cup rule_filters.positive,
     negative |-> model_filters.negative \cup rule_filters.negative]

\* the candidates of the job run_model_job runs (extractor_ui.py 22-62 and
\* its description, 97-105): the job is run whether or not a rule is bound
\* and processes the items the internal filters of the model select;
\* bound rules restrict it to the items that match any of them
\* (rule_builder.py 190-201)
JobCandidates(items, rules, supported_mime_types) ==
    LET model_filters == item_extraction_rules(supported_mime_types)
        bound == get_rules_for_setter(rules, ExtractorSetter)
    IN  IF bound = {} THEN FilterCandidates(items, model_filters)
        ELSE UNION {FilterCandidates(items,
                        ChainedFilters(model_filters, r.filters)) :
                    r \in bound}

\* a store of items, the rules of the user and an extractor
RuleInit ==
    /\ JMInit
    /\ sim = None
    /\ \E items \in [RuleItems -> [type : MimeTypes,
                                   setters : SUBSET {ExtractorSetter}]],
          rules \in SUBSET StoredRules,
          supported_mime_types \in {{}, {"image/"}} :
         /\ Cardinality(rules) <= 1
         /\ fn = [phase |-> "idle", items |-> items, rules |-> rules,
                  supported_mime_types |-> supported_mime_types,
                  builtin |-> {}, processed |-> {}]

\* run_model_job: every candidate is processed and ItemData of the setter
\* is written for it; builtin holds the candidates under
\* item_extraction_rules alone, items the store before the job
RunModelJob ==
    /\ fn.phase = "idle"
    /\ fn' = [fn EXCEPT
                !.phase = "ran",
                !.builtin =
                    FilterCandidates(fn.items,
                        item_extraction_rules(fn.supported_mime_types)),
                !.processed = JobCandidates(fn.items, fn.rules,
                                            fn.supported_mime_types)]
    /\ UNCHANGED <<jmvars, sim>>

RuleNext == RunModelJob

RuleSpec == RuleInit /\ [][RuleNext]_vars

C23_BuiltinRules ==
    fn.phase = "ran" =>
        \A i \in RuleItems :
            LET had_data == ExtractorSetter \in fn.items[i].setters
                supported ==
                    fn.supported_mime_types = {}
                    \/ \E prefix \in fn.supported_mime_types :
                          StartsWith(fn.items[i].type, prefix)
            IN  /\ had_data => i \notin fn.builtin
                /\ (~had_data /\ supported) => i \in fn.builtin

\* =========================================================================
\* Database handles: get_database_connection (panoptikon/db/__init__.py
\* 12-53) and the callers search (api/routers/search.py 99-124),
\* update_filter (ui/components/rule_builder.py 35-51) and run_model_job
\* (ui/components/extractor_ui.py 22-62).  One process runs the operations
\* of the callers one after the other; a step of an operation returns or
\* raises.
\* =========================================================================
MaxOps == 2         \* operations the callers run

Databases == {"index", "storage", "user_data"}

\* db/__init__.py 12-53: the handle for the arguments and the READONLY
\* setting of the environment
get_database_connection(write_lock, user_data_wl, readonly_mode) ==
    LET write == write_lock /\ ~readonly_mode
        \* lines 19-35: index is opened and storage attached, both writable
        \* or both with mode=ro; write_lock is reassigned
        main == [attached |-> {"index", "storage"},
                 writable |-> IF write THEN {"index", "storage"} ELSE {}]
        \* lines 38-47: user_data is attached writable, or read-only when
        \* write_lock is now False, or not at all
        user == IF user_data_wl /\ ~readonly_mode
                THEN [attached |-> {"user_data"}, writable |-> {"user_data"}]
                ELSE IF ~write
                THEN [attached |-> {"user_data"}, writable |-> {}]
                ELSE [attached |-> {}, writable |-> {}]
    IN  [write_lock |-> write_lock, user_data_wl |-> user_data_wl,
         attached |-> main.attached \cup user.attached,
         writable |-> main.writable \cup user.writable,
         \* lines 49-51
         foreign_keys |-> TRUE,
         closed |-> FALSE, in_transaction |-> FALSE]

\* the handle of the running operation: the last one acquired
Conn == fn.handles[Len(fn.handles)]

\* the steps of the running operation act on its handle
WithConn(handle) == [fn.handles EXCEPT ![Len(fn.handles)] = handle]

\* the operation ended, by return or by an exception that left the caller
OperationEnds(handles, raised) ==
    fn' = [fn EXCEPT !.phase = "idle", !.ops = @ + 1, !.handles = handles,
                     !.raised = raised]

DbInit ==
    /\ JMInit
    /\ sim = None
    /\ \E readonly_mode \in BOOLEAN :
         fn = [phase |-> "idle", ops |-> 0, readonly_mode |-> readonly_mode,
               handles |-> <<>>, raised |-> FALSE]

\* an operation starts by acquiring its handle: search.py 107,
\* rule_builder.py 45, extractor_ui.py 24
Acquire(caller, phase, write_lock) ==
    /\ fn.phase = "idle"
    /\ fn.ops < MaxOps
    /\ fn' = [fn EXCEPT
                !.phase = phase,
                !.raised = FALSE,
                !.handles = Append(@, [caller |-> caller] @@
                                get_database_connection(
                                    write_lock, FALSE, fn.readonly_mode))]
    /\ UNCHANGED <<jmvars, sim>>

\* search.py 107: conn = get_database_connection(**conn_args), read-only
SearchAcquire == Acquire("search", "search_decode", FALSE)

\* search.py 108-121, inside try: the embeddings of the query are decoded
SearchDecode ==
    /\ fn.phase = "search_decode"
    /\ \E raised \in BOOLEAN :
         fn' = [fn EXCEPT !.phase = IF raised THEN "search_finally"
                                    ELSE "search_query",
                          !.raised = raised]
    /\ UNCHANGED <<jmvars, sim>>

\* search.py 122-123, inside try: search_files and process_results
SearchQuery ==
    /\ fn.phase = "search_query"
    /\ \E raised \in BOOLEAN :
         fn' = [fn EXCEPT !.phase = "search_finally", !.raised = raised]
    /\ UNCHANGED <<jmvars, sim>>

\* search.py 124-125: finally: conn.close(); the exception, if any, goes on
SearchFinally ==
    /\ fn.phase = "search_finally"
    /\ OperationEnds(WithConn([Conn EXCEPT !.closed = TRUE]), fn.raised)
    /\ UNCHANGED <<jmvars, sim>>

\* rule_builder.py 45: conn = get_database_connection(write_lock=True)
UpdateFilterAcquire == Acquire("update_filter", "uf_begin", TRUE)

\* rule_builder.py 46: conn.execute("BEGIN TRANSACTION")
UpdateFilterBegin ==
    /\ fn.phase = "uf_begin"
    /\ fn' = [fn EXCEPT !.phase = "uf_update_rule",
                        !.handles = WithConn([Conn EXCEPT
                                                !.in_transaction = TRUE])]
    /\ UNCHANGED <<jmvars, sim>>

\* rule_builder.py 47: update_rule(...); an exception leaves update_filter
UpdateFilterUpdateRule ==
    /\ fn.phase = "uf_update_rule"
    /\ \E raised \in BOOLEAN :
         IF raised THEN OperationEnds(fn.handles, TRUE)
         ELSE fn' = [fn EXCEPT !.phase = "uf_commit"]
    /\ UNCHANGED <<jmvars, sim>>

\* rule_builder.py 48: conn.commit()
UpdateFilterCommit ==
    /\ fn.phase = "uf_commit"
    /\ \E raised \in BOOLEAN :
         IF raised THEN OperationEnds(fn.handles, TRUE)
         ELSE fn' = [fn EXCEPT !.phase = "uf_get_rules",
                               !.handles = WithConn([Conn EXCEPT
                                               !.in_transaction = FALSE])]
    /\ UNCHANGED <<jmvars, sim>>

\* rule_builder.py 49: rules = get_rules(conn)
UpdateFilterGetRules ==
    /\ fn.phase = "uf_get_rules"
    /\ \E raised \in BOOLEAN :
         IF raised THEN OperationEnds(fn.handles, TRUE)
         ELSE fn' = [fn EXCEPT !.phase = "uf_close"]
    /\ UNCHANGED <<jmvars, sim>>

\* rule_builder.py 50-51: conn.close(); return rules
UpdateFilterClose ==
    /\ fn.phase = "uf_close"
    /\ OperationEnds(WithConn([Conn EXCEPT !.closed = TRUE]), FALSE)
    /\ UNCHANGED <<jmvars, sim>>

\* extractor_ui.py 24: conn = get_database_connection(write_lock=True)
RunModelJobAcquire == Acquire("run_model_job", "rmj_begin", TRUE)

\* extractor_ui.py 25-26: cursor.execute("BEGIN")
RunModelJobBegin ==
    /\ fn.phase = "rmj_begin"
    /\ fn' = [fn EXCEPT !.phase = "rmj_extract",
                        !.handles = WithConn([Conn EXCEPT
                                                !.in_transaction = TRUE])]
    /\ UNCHANGED <<jmvars, sim>>

\* extractor_ui.py 29-47: the loop over model_opt.run_extractor(conn)
RunModelJobExtract ==
    /\ fn.phase = "rmj_extract"
    /\ \E raised \in BOOLEAN :
         IF raised THEN OperationEnds(fn.handles, TRUE)
         ELSE fn' = [fn EXCEPT !.phase = "rmj_commit"]
    /\ UNCHANGED <<jmvars, sim>>

\* extractor_ui.py 52: conn.commit()
RunModelJobCommit ==
    /\ fn.phase = "rmj_commit"
    /\ \E raised \in BOOLEAN :
         IF raised THEN OperationEnds(fn.handles, TRUE)
         ELSE fn' = [fn EXCEPT !.phase = "rmj_close",
                               !.handles = WithConn([Conn EXCEPT
                                               !.in_transaction = FALSE])]
    /\ UNCHANGED <<jmvars, sim>>

\* extractor_ui.py 61-62: conn.close(); return report_str
RunModelJobClose ==
    /\ fn.phase = "rmj_close"
    /\ OperationEnds(WithConn([Conn EXCEPT !.closed = TRUE]), FALSE)
    /\ UNCHANGED <<jmvars, sim>>

DbNext ==
    \/ SearchAcquire \/ SearchDecode \/ SearchQuery \/ SearchFinally
    \/ UpdateFilterAcquire \/ UpdateFilterBegin \/ UpdateFilterUpdateRule
    \/ UpdateFilterCommit \/ UpdateFilterGetRules \/ UpdateFilterClose
    \/ RunModelJobAcquire \/ RunModelJobBegin \/ RunModelJobExtract
    \/ RunModelJobCommit \/ RunModelJobClose

DbSpec == DbInit /\ [][DbNext]_vars

\* C24: every handle get_database_connection returned has index, storage
\* and user_data attached and foreign keys on; index and storage are
\* writable exactly when write_lock was requested and READONLY is off,
\* user_data exactly when user_data_wl was requested and READONLY is off.
C24_HandleModes ==
    \A k \in 1..Len(fn.handles) :
        LET h == fn.handles[k]
        IN  /\ h.attached = Databases
            /\ h.foreign_keys
            /\ \A db \in {"index", "storage"} :
                  db \in h.writable <=> (h.write_lock /\ ~fn.readonly_mode)
            /\ "user_data" \in h.writable
                   <=> (h.user_data_wl /\ ~fn.readonly_mode)

\* C25: after the operation of a caller ended, by return or by an exception
\* of any of its steps, its handle is closed and no transaction it began is
\* open.
C25_HandlesReleased ==
    fn.phase = "idle" =>
        \A k \in 1..Len(fn.handles) :
            fn.handles[k].closed /\ ~fn.handles[k].in_transaction

\* =========================================================================
\* Opening a file on the host: get_correct_path, open_file_on_host and
\* show_in_file_manager (panoptikon/api/app.py 88-141).  A path is a
\* sequence of characters, so that str.strip acts on it.
\* =========================================================================
MaxPathLen == 2     \* characters of a path the client sends

PathChars == {"a", "b", " "}

Sha256s == {"s1", "s2"}

\* the paths a client can send; the empty one is the query ?path=
ClientPaths == UNION {[1..n -> PathChars] : n \in 0..MaxPathLen}

\* the paths of the files the store records, one of them ending in a blank
StoredPaths == {<<"a">>, <<"b">>, <<"a", " ">>}

\* str.strip(): the blanks at both ends are removed
RECURSIVE lstrip(_)
lstrip(path) ==
    IF path # <<>> /\ Head(path) = " " THEN lstrip(Tail(path)) ELSE path

RECURSIVE rstrip(_)
rstrip(path) ==
    IF path # <<>> /\ path[Len(path)] = " "
    THEN rstrip(SubSeq(path, 1, Len(path) - 1))
    ELSE path

strip(path) == rstrip(lstrip(path))

\* panoptikon.db.files.get_item_metadata_by_sha256: the file records of the
\* item with this sha256
get_item_metadata_by_sha256(files, sha256) == files[sha256]

\* panoptikon.db.files.get_existing_file_for_sha256: the file records of
\* the item whose path exists on disk; the caller gets one of them, or None
\* when the set is empty
get_existing_file_for_sha256(files, on_disk, sha256) ==
    files[sha256] \cap on_disk

\* app.py 97: any(f.path == path for f in files)
AnyFileHasPath_Unverified(files, path) == TRUE
AnyFileHasPath(files, path) == \E f \in files : f = path

\* app.py 88-99: the outcomes of get_correct_path, a 404 or a path
get_correct_path(files, on_disk, sha256, has_path, path) ==
    IF ~has_path \/ path = <<>>
    THEN LET existing == get_existing_file_for_sha256(files, on_disk, sha256)
         IN  IF existing = {}
             THEN {[status |-> 404, path |-> <<>>]}
             ELSE {[status |-> 200, path |-> file] : file \in existing}
    ELSE LET stripped == strip(path)
             item_files == get_item_metadata_by_sha256(files, sha256)
         IN  IF item_files = {} \/ ~AnyFileHasPath(item_files, stripped)
             THEN {[status |-> 404, path |-> <<>>]}
             ELSE {[status |-> 200, path |-> stripped]}

OpenInit ==
    /\ JMInit
    /\ sim = None
    /\ \E files \in [Sha256s -> SUBSET StoredPaths] :
       \E on_disk \in {StoredPaths, {<<"b">>}} :
         fn = [phase |-> "idle", files |-> files, on_disk |-> on_disk,
               endpoint |-> "none", sha256 |-> "s1", has_path |-> FALSE,
               path |-> <<>>, status |-> 0, opened |-> {}]

\* app.py 113-119 and 135-141: the endpoint opens the path that
\* get_correct_path returned, or answers with its 404
Endpoint(endpoint) ==
    /\ fn.phase = "idle"
    /\ \E sha256 \in Sha256s, has_path \in BOOLEAN, path \in ClientPaths :
         /\ ~has_path => path = <<>>
         /\ \E r \in get_correct_path(fn.files, fn.on_disk, sha256,
                                      has_path, path) :
              fn' = [fn EXCEPT
                       !.phase = "done", !.endpoint = endpoint,
                       !.sha256 = sha256, !.has_path = has_path,
                       !.path = path, !.status = r.status,
                       !.opened = IF r.status = 200 THEN {r.path} ELSE {}]
    /\ UNCHANGED <<jmvars, sim>>

open_file_on_host == Endpoint("open_file")

show_in_file_manager == Endpoint("open_folder")

OpenNext == open_file_on_host \/ show_in_file_manager

OpenSpec == OpenInit /\ [][OpenNext]_vars

\* C26 as stated: the opened path is a path of a file of the requested
\* sha256; a path the client sent that is not one of these paths, or a
\* sha256 with no file, gives 404 and nothing is opened.
C26_ClientPathRejected ==
    fn.phase = "done" =>
        /\ fn.opened \subseteq fn.files[fn.sha256]
        /\ (fn.files[fn.sha256] = {}
            \/ (fn.has_path /\ fn.path \notin fn.files[fn.sha256]))
               => (fn.status = 404 /\ fn.opened = {})

\* C26 amended: the opened path is a path of a file of the requested
\* sha256; a non-empty path the client sent gives 404 when, with the blanks
\* at its ends removed, it is not one of these paths, and is otherwise
\* opened in that stripped form; a sha256 with no file gives 404; with a
\* 404 nothing is opened.
C26_OpenedPathVerified ==
    fn.phase = "done" =>
        /\ fn.opened \subseteq fn.files[fn.sha256]
        /\ fn.status \in {200, 404}
        /\ fn.status = 404 => fn.opened = {}
        /\ fn.status = 200 => fn.opened # {}
        /\ fn.files[fn.sha256] = {} => fn.status = 404
        /\ (fn.has_path /\ fn.path # <<>>) =>
              IF strip(fn.path) \in fn.files[fn.sha256]
              THEN fn.opened = {strip(fn.path)}
              ELSE fn.status = 404

\* a path with a blank at its end was sent and the stored path without the
\* blank was opened
C26_Witness ==
    /\ fn.phase = "done"
    /\ fn.has_path
    /\ fn.path = <<"b", " ">>
    /\ fn.path \notin fn.files[fn.sha256]
    /\ fn.opened = {<<"b">>}

\* =========================================================================
\* The response of POST /api/search: process_results
\* (panoptikon/api/routers/search.py 49-56) applied to the rows that
\* search_files yields for the requested page.
\* =========================================================================
MaxPage == 2        \* the pages 0..MaxPage are requested

\* search_files: a row per file of the requested page, each with the total
\* number of unique files matching the query
search_files(matching, page, page_size) ==
    LET all == SortedSeq(matching)
        lo == page * page_size + 1
        hi == IF (page + 1) * page_size < Len(all)
              THEN (page + 1) * page_size ELSE Len(all)
    IN  IF lo > hi THEN <<>>
        ELSE [i \in 1..(hi - lo + 1) |->
                 <<all[lo + i - 1], Cardinality(matching)>>]

\* search.py 49-56
process_results(results) ==
    IF Len(results) = 0
    THEN [count |-> 0, results |-> <<>>]
    ELSE [count |-> results[1][2],
          results |-> [i \in 1..Len(results) |-> results[i][1]]]

NoResponse == [count |-> -1, results |-> <<>>]

CountInit ==
    /\ JMInit
    /\ sim = None
    /\ \E matching \in SUBSET (1..MaxFiles), page_size \in 1..PageSize :
         fn = [matching |-> matching, page_size |-> page_size,
               responses |-> [page \in 0..MaxPage |-> NoResponse]]

\* search.py 99-125: one request for a page of the query
PostSearch ==
    /\ \E page \in 0..MaxPage :
         /\ fn.responses[page] = NoResponse
         /\ fn' = [fn EXCEPT !.responses[page] =
                      process_results(
                          search_files(fn.matching, page, fn.page_size))]
    /\ UNCHANGED <<jmvars, sim>>

CountNext == PostSearch

CountSpec == CountInit /\ [][CountNext]_vars

\* C27: the count of a response is the number of unique files matching the
\* query whatever page was requested: a page beyond the last one has no
\* results and the same count.
C27_CountIndependentOfPage ==
    \A page \in 0..MaxPage :
        fn.responses[page] # NoResponse =>
            fn.responses[page].count = Cardinality(fn.matching)

\* =========================================================================
\* get_queue_status against the jobs in flight (jobs/manager.py 107-164)
\* =========================================================================
\* the jobs that were enqueued and have neither finished nor been cancelled
PendingJobs ==
    {j \in Range(enqOrder) :
        /\ proc[j] # "exited"
        /\ j \notin cancelledQueued
        /\ j \notin crjReturned}

\* C28: whenever get_queue_status reads the queue under the lock, every job
\* that was enqueued and has neither finished nor been cancelled is in the
\* status exactly once, as the first entry with running = TRUE or as a
\* queued entry with running = FALSE, the queued entries in enqueue order.
C28_StatusListsEveryPendingJob ==
    (\E t \in Clients : pc[t] = "gqs_locked") =>
        /\ \A j \in PendingJobs :
              /\ Cardinality({i \in 1..Len(QueueStatus) :
                                 QueueStatus[i].queue_id = j}) = 1
              /\ \A i \in 1..Len(QueueStatus) :
                    (QueueStatus[i].queue_id = j /\ QueueStatus[i].running)
                        => i = 1
        /\ \A i, k \in 1..Len(QueueStatus) :
              (i < k /\ ~QueueStatus[i].running /\ ~QueueStatus[k].running)
                  => \E a, b \in 1..Len(enqOrder) :
                        /\ a < b
                        /\ enqOrder[a] = QueueStatus[i].queue_id
                        /\ enqOrder[b] = QueueStatus[k].queue_id

\* =========================================================================
\* handle_tag_result (data_handlers/tags.py 100-153): the two tag-text rows
\* written for the aggregated tags of an item.  A tag is named by its
\* position in the aggregated list; a text is the sequence of the names.
\* =========================================================================
MaxTags == 3        \* aggregated tags of an item

TagNamespaces == {"general", "character"}

\* the names of the tags, in the order of the list
TagNames(tags) == [i \in 1..Len(tags) |-> i]

\* line 133: the confidences of the general tags, in order
GeneralConfidences(tags) ==
    LET IsGeneral(name) == tags[name].ns = "general"
        general == SelectSeq(TagNames(tags), IsGeneral)
    IN  [i \in 1..Len(general) |-> tags[general[i]].confidence]

\* line 23: difs.argmax() raises ValueError for an empty difs, which is
\* what one probability leaves of sorted_probs[:-1] - sorted_probs[1:]
argmax_raises(probs) == Len(probs) - 1 = 0

\* line 118: min(confidence for every tag)
min_confidence(tags) ==
    CHOOSE c \in {tags[i].confidence : i \in DOMAIN tags} :
        \A i \in DOMAIN tags : c <= tags[i].confidence

\* lines 117-153: the rows inserted and whether the call raised
handle_tag_result(tags) ==
    LET full == [index |-> 0, text |-> TagNames(tags),
                 confidence |-> min_confidence(tags)]
        general == GeneralConfidences(tags)
    IN  IF general = <<>>
        THEN [raised |-> FALSE, rows |-> <<full>>]
        ELSE IF argmax_raises(general)
        THEN [raised |-> TRUE, rows |-> <<full>>]
        ELSE LET m_thresh == mcut_threshold(general)
                 Cut(name) == \/ tags[name].confidence >= m_thresh
                              \/ tags[name].ns # "general"
             IN  [raised |-> FALSE,
                  rows |-> <<full,
                             [index |-> 1,
                              text |-> SelectSeq(TagNames(tags), Cut),
                              confidence |-> m_thresh]>>]

TagInit ==
    /\ JMInit
    /\ sim = None
    /\ \E n \in 1..MaxTags :
         \E tags \in [1..n -> [ns : TagNamespaces, confidence : ProbValues]] :
           fn = [phase |-> "tags", tags |-> tags, raised |-> FALSE,
                 rows |-> <<>>]

HandleTagResult ==
    /\ fn.phase = "tags"
    /\ fn' = [fn EXCEPT !.phase = "handled",
                        !.raised = handle_tag_result(fn.tags).raised,
                        !.rows = handle_tag_result(fn.tags).rows]
    /\ UNCHANGED <<jmvars, sim>>

TagNext == HandleTagResult

TagSpec == TagInit /\ [][TagNext]_vars

\* C29: for aggregated tags with at least one general tag, exactly one
\* included, handle_tag_result completes and has written the full tag-text
\* row and then the MCut row, which holds every non-general tag and every
\* general tag whose confidence is at least the MCut threshold.
C29_McutRowWritten ==
    (fn.phase = "handled"
        /\ \E i \in DOMAIN fn.tags : fn.tags[i].ns = "general") =>
        /\ ~fn.raised
        /\ Len(fn.rows) = 2
        /\ fn.rows[1].index = 0
        /\ fn.rows[1].text = TagNames(fn.tags)
        /\ fn.rows[2].index = 1
        /\ \A i \in DOMAIN fn.tags :
              (\E k \in DOMAIN fn.rows[2].text : fn.rows[2].text[k] = i)
                  <=> \/ fn.tags[i].ns # "general"
                      \/ fn.tags[i].confidence >= fn.rows[2].confidence

\* =========================================================================
\* ModelOptsFactory.get_model and ModelGroup.setter_name
\* (panoptikon/data_extractors/models.py 631-790), called by execute_job in
\* the worker process (jobs/manager.py 55-64).  A name is a sequence of
\* characters, so that split and + act on it.
\* =========================================================================
MaxGroups == 2      \* groups of the inference metadata

GroupChars == <<"g", "h", "k">>

\* the group names, in the order of the metadata dict
GroupNames == [k \in 1..MaxGroups |-> <<GroupChars[k]>>]

InferenceIds == {<<"i">>, <<"j">>, <<"g", "/", "i">>}

\* the position of the first "/" of a name, 0 if it has none
FirstSlash(name) ==
    IF \E k \in DOMAIN name : name[k] = "/"
    THEN CHOOSE k \in DOMAIN name :
             name[k] = "/" /\ \A l \in 1..(k - 1) : name[l] # "/"
    ELSE 0

\* models.py 789-790: self._group + "/" + self._inference_id
setter_name(model) == model.group \o <<"/">> \o model.inference_id

NoModel == [group |-> <<>>, inference_id |-> <<>>]

\* models.py 32-37 and 748-752: ModelGroup(model_name) asserts
\* valid_model(model_name), i.e. model_name in the inference ids of the group
NewModelGroup(metadata, api_models, group, model_name) ==
    IF model_name \in metadata[group]
    THEN [raised |-> "none", api_models |-> api_models,
          model |-> [group |-> group, inference_id |-> model_name]]
    ELSE [raised |-> "AssertionError", api_models |-> api_models,
          model |-> NoModel]

\* models.py 651-661: a class is registered for every group of the
\* metadata that has none yet; the registry keeps insertion order
get_api_model_opts(api_models) ==
    api_models \o SelectSeq(GroupNames,
                            LAMBDA g : g \notin Range(api_models))

\* models.py 663-668: the first registered class for which the whole setter
\* name is a valid model name
get_model_opts(metadata, api_models, name) ==
    LET all == get_api_model_opts(api_models)
        valid == SelectSeq(all, LAMBDA g : name \in metadata[g])
    IN  IF valid = <<>>
        THEN [raised |-> "ValueError", api_models |-> all, model |-> NoModel]
        ELSE NewModelGroup(metadata, all, valid[1], name)

\* models.py 670-680
get_model(metadata, api_models, name) ==
    LET k == FirstSlash(name)
        group_name == SubSeq(name, 1, k - 1)
        inference_id == SubSeq(name, k + 1, Len(name))
    IN  IF k > 0 /\ group_name \in Range(api_models)
        THEN NewModelGroup(metadata, api_models, group_name, inference_id)
        ELSE get_model_opts(metadata, api_models, name)

ModelInit ==
    /\ JMInit
    /\ sim = None
    /\ \E metadata \in [Range(GroupNames) -> (SUBSET InferenceIds) \ {{}}] :
         fn = [process |-> "server", metadata |-> metadata,
               api_models |-> <<>>, populated |-> FALSE, name |-> <<>>,
               raised |-> "none", model |-> NoModel]

\* models.py 635-649: the server lists the extractors, which registers the
\* group classes
GetAllModelOpts ==
    /\ fn.process = "server"
    /\ fn.api_models = <<>>
    /\ fn' = [fn EXCEPT !.api_models = get_api_model_opts(@)]
    /\ UNCHANGED <<jmvars, sim>>

\* manager.py 117-126: the job runs in a new process, which starts with
\* the registry of the server (fork) or with the empty one of the class
\* definition (spawn)
SpawnWorker ==
    /\ fn.process = "server"
    /\ \E inherited \in BOOLEAN :
         fn' = [fn EXCEPT !.process = "worker",
                          !.api_models = IF inherited THEN @ ELSE <<>>]
    /\ UNCHANGED <<jmvars, sim>>

\* manager.py 55-64: execute_job calls ModelOptsFactory.get_model with the
\* setter name g + "/" + i of a model of the metadata
ExecuteJob ==
    /\ fn.process = "worker"
    /\ fn.name = <<>>
    /\ \E g \in Range(GroupNames) :
       \E i \in fn.metadata[g] :
         LET name == g \o <<"/">> \o i
             r == get_model(fn.metadata, fn.api_models, name)
         IN  fn' = [fn EXCEPT !.name = name,
                              !.populated = g \in Range(fn.api_models),
                              !.raised = r.raised, !.model = r.model,
                              !.api_models = r.api_models]
    /\ UNCHANGED <<jmvars, sim>>

ModelNext == GetAllModelOpts \/ SpawnWorker \/ ExecuteJob

ModelSpec == ModelInit /\ [][ModelNext]_vars

\* C30: for every group g and inference id i of the metadata,
\* get_model(g + "/" + i) returns a model whose setter_name() is
\* g + "/" + i, whether the registry had been populated before or not.
C30_SetterNameRoundTrip ==
    fn.name # <<>> =>
        /\ fn.raised = "none"
        /\ setter_name(fn.model) = fn.name
====
